---- MODULE Spec2Model ----
(***************************************************************************)
(* Retrieval-and-generation orchestrator of CHAT_HELP                      *)
(* (backend/services/rag_service.py): query normalisation and variant      *)
(* expansion, the hybrid retrieval loop of RAGService.generate_response    *)
(* with its merge/dedup, the generation step with its provider chain, and *)
(* the chat endpoint that wraps it (backend/app/api/chat.py).              *)
(***************************************************************************)
EXTENDS Integers, Sequences, FiniteSets, TLC

VARIABLES
    articles,           \* ids of the articles in the article store
    documents,          \* ids of the documents in the document store
    pc,                 \* position inside generate_response
    user_question,      \* the argument of generate_response
    normalized,         \* result of _normalize_query
    variants,           \* list returned by _expand_query_variants
    vi,                 \* index of the variant q the loop is at
    collected,          \* dict id -> Article, in insertion order
    collected_docs,     \* dict id -> document, in insertion order
    relevant_articles,  \* list(collected.values())[:5]
    relevant_documents, \* list(collected_docs.values())[:3]
    seenArt,            \* history: ids of the article hits of the variants
                        \* tried, in order of first return
    seenDoc,            \* history: the same for the document hits
    allArt,             \* history: the article map of a loop that tries
                        \* every variant
    allDoc,             \* history: the document map of that loop
    repeated,           \* history: an adapter returned an id returned before
    refVi,              \* history: the variant whose articles the loop that
                        \* tries every variant has folded
    refDi,              \* history: the variant whose documents it has folded
    response_model,     \* "response_model" of ai_settings.json
    prompt,             \* the prompt handed to _generate_with_ai_settings
    attempt,            \* attempt of the loop of _generate_with_mistral
    slept,              \* the waits of time.sleep, in ms
    ai_response,        \* the answer text
    resp,               \* the last response a provider gave
    calls,              \* history: the providers requested by this generate
                        \* call, one entry per request
    ncall,              \* history: number of the generate call
    prevCalls,          \* history: calls of the generate call before
    chat_messages,      \* rows of the chat message table
    result,             \* what generate_response returned
    fault,              \* the exception send_message caught
    current,            \* chat:current:<user>, 0 while unset
    sessions,           \* chat:sessions:<user>
    history,            \* chat:history:<user>:<sid>, by sid
    response,           \* what send_message gave its caller
    collection,         \* the Chroma collection "kb_articles": whether it
                        \* exists and the article ids it holds
    rpc,                \* position of reindex_articles
    fetched,            \* articles of reindex_articles: the ids it read
    total,              \* total of reindex_articles
    processed,          \* processed of reindex_articles
    report,             \* what reindex_articles returned
    replaced,           \* history: the ids the index held before the reindex
    observed,           \* history: the ids a concurrent _search_semantic
                        \* found in the index
    index_fault,        \* history: the Chroma command of the reindex that
                        \* failed
    args,               \* arguments of a function run on its own
    ret,                \* what that function returned
    message,            \* request.message of send_message
    use_elasticsearch,  \* use_elasticsearch of send_message, resolved
    es_context,         \* es_context of send_message
    es_articles,        \* es_articles of send_message
    es_fault,           \* history: the step of the Elasticsearch branch that
                        \* raised
    agents,             \* ElasticSearchAgentService._agents: the agent types
                        \* that hold an agent
    active_agent,       \* ElasticSearchAgentService._active_agent, "" for None
    procs,              \* the requests running _start_new_session side by
                        \* side: position, locals and returned id of each
    served              \* history: number of the calls of the chat endpoints

storeVars == <<articles, documents>>
queryVars == <<user_question, normalized, variants>>
loopVars == <<vi, collected, collected_docs>>
resultVars == <<relevant_articles, relevant_documents>>
histVars == <<seenArt, seenDoc, allArt, allDoc, repeated, refVi, refDi>>
genVars == <<prompt, attempt, slept, ai_response, resp, calls, ncall, prevCalls>>
dbVars == <<chat_messages, result>>
chatVars == <<fault, current, sessions, history, response>>
indexVars == <<collection, rpc, fetched, total, processed, report, replaced, observed,
               index_fault>>
callVars == <<args, ret>>
esVars == <<message, use_elasticsearch, es_context, es_articles, es_fault>>
agentVars == <<agents, active_agent>>
moreVars == <<esVars, agentVars, procs, served>>
sideVars == <<indexVars, callVars, moreVars>>
retrievalVars == <<storeVars, sideVars, queryVars, loopVars, resultVars, histVars>>

vars == <<storeVars, sideVars, response_model, pc, queryVars, loopVars, resultVars,
          histVars, genVars, dbVars, chatVars>>

----------------------------------------------------------------------------
(* Bounds of the model *)

\* longest hit list an adapter returns in the model (the code asks for 5)
MaxHits == 2

\* caps of the merged lists
ArticleCap == 5
DocumentCap == 3

\* ids of the articles and documents in the stores: one more than the cap,
\* so that a merged map can outgrow its slice
ArticleIds == 1 .. (ArticleCap + 1)
DocumentIds == 1 .. (DocumentCap + 1)

\* the stores hold the ids 1 .. n for some n: ids count only by equality
Stores(ids) == {1 .. n : n \in 0 .. Cardinality(ids)}

----------------------------------------------------------------------------
(* Sequences *)

Range(s) == {s[i] : i \in 1 .. Len(s)}

Min(a, b) == IF a < b THEN a ELSE b

\* duplicate-free sequences over S of length <= n
RECURSIVE InjSeqs(_, _)
InjSeqs(S, n) ==
    IF n = 0 THEN {<<>>}
    ELSE LET shorter == InjSeqs(S, n - 1)
         IN  shorter \cup
             UNION {{Append(s, x) : x \in S \ Range(s)} : s \in shorter}

----------------------------------------------------------------------------
(* Strings: a str is a sequence of characters; a Cyrillic letter is written *)
(* "~" followed by its transliteration, upper case for a capital letter     *)

\* str.lower() on one character of the alphabet the tables and inputs use
LowerChar(c) ==
    CASE c = "A" -> "a"
      [] c = "B" -> "b"
      [] c = "C" -> "c"
      [] c = "D" -> "d"
      [] c = "E" -> "e"
      [] c = "F" -> "f"
      [] c = "G" -> "g"
      [] c = "H" -> "h"
      [] c = "I" -> "i"
      [] c = "J" -> "j"
      [] c = "K" -> "k"
      [] c = "L" -> "l"
      [] c = "M" -> "m"
      [] c = "N" -> "n"
      [] c = "O" -> "o"
      [] c = "P" -> "p"
      [] c = "Q" -> "q"
      [] c = "R" -> "r"
      [] c = "S" -> "s"
      [] c = "T" -> "t"
      [] c = "U" -> "u"
      [] c = "V" -> "v"
      [] c = "W" -> "w"
      [] c = "X" -> "x"
      [] c = "Y" -> "y"
      [] c = "Z" -> "z"
      [] c = "~A" -> "~a"
      [] c = "~B" -> "~b"
      [] c = "~V" -> "~v"
      [] c = "~G" -> "~g"
      [] c = "~D" -> "~d"
      [] c = "~E" -> "~e"
      [] c = "~ZH" -> "~zh"
      [] c = "~Z" -> "~z"
      [] c = "~I" -> "~i"
      [] c = "~J" -> "~j"
      [] c = "~K" -> "~k"
      [] c = "~L" -> "~l"
      [] c = "~M" -> "~m"
      [] c = "~N" -> "~n"
      [] c = "~O" -> "~o"
      [] c = "~P" -> "~p"
      [] c = "~R" -> "~r"
      [] c = "~S" -> "~s"
      [] c = "~T" -> "~t"
      [] c = "~U" -> "~u"
      [] c = "~F" -> "~f"
      [] c = "~H" -> "~h"
      [] c = "~C" -> "~c"
      [] c = "~CH" -> "~ch"
      [] c = "~SH" -> "~sh"
      [] c = "~SCH" -> "~sch"
      [] c = "~QH" -> "~qh"
      [] c = "~Y" -> "~y"
      [] c = "~Q" -> "~q"
      [] c = "~EH" -> "~eh"
      [] c = "~YU" -> "~yu"
      [] c = "~YA" -> "~ya"
      [] OTHER -> c

\* replacements of _normalize_query, in dict order: <<key, value>>
replacements == <<
    <<<<"~a", "~v", "~t", "~o", "~k", "~a", "~d">>,
      <<"A", "u", "t", "o", "C", "A", "D">>>>,
    <<<<"~a", "~u", "~t", "~o", " ", "~k", "~a", "~d">>,
      <<"A", "u", "t", "o", "C", "A", "D">>>>,
    <<<<"~v", "~i", "~n", "~d", "~o", "~v", "~s">>,
      <<"W", "i", "n", "d", "o", "w", "s">>>>,
    <<<<"~eh", "~k", "~s", "~e", "~l", "~q">>,
      <<"E", "x", "c", "e", "l">>>>,
    <<<<"~o", "~u", "~t", "~l", "~u", "~k">>,
      <<"O", "u", "t", "l", "o", "o", "k">>>>,
    <<<<"~a", "~u", "~t", "~l", "~u", "~k">>,
      <<"O", "u", "t", "l", "o", "o", "k">>>>,
    <<<<"~m", "~s", " ", "~o", "~f", "~i", "~s">>,
      <<"M", "S", " ", "O", "f", "f", "i", "c", "e">>>>,
    <<<<"~m", "~s", "~o">>,
      <<"M", "S", "O">>>>,
    <<<<"~g", "~i", "~t">>,
      <<"G", "I", "T">>>>,
    <<<<"~s", "~b", "~p">>,
      <<"~S", "~B", "~P">>>>,
    <<<<"~m", "~t", " ">>,
      <<"~M", "~T", " ">>>>,
    <<<<" ", "~d", "~i", "~a", "~d", "~o", "~k">>,
      <<" ", "~D", "~i", "~a", "~d", "~o", "~k">>>>
>>

\* synonym_groups of _expand_query_variants
synonym_groups == <<
    <<<<"A", "u", "t", "o", "C", "A", "D">>,
      <<"~A", "~v", "~t", "~o", "~k", "~a", "~d">>,
      <<"A", "u", "t", "o", "d", "e", "s", "k", " ", "A", "u", "t", "o", "C", "A", "D">>>>,
    <<<<"E", "x", "c", "e", "l">>,
      <<"~EH", "~k", "~s", "~e", "~l", "~q">>,
      <<"M", "S", " ", "E", "x", "c", "e", "l">>>>,
    <<<<"O", "u", "t", "l", "o", "o", "k">>,
      <<"~A", "~u", "~t", "~l", "~u", "~k">>,
      <<"M", "S", " ", "O", "u", "t", "l", "o", "o", "k">>>>,
    <<<<"W", "i", "n", "d", "o", "w", "s">>,
      <<"~V", "~i", "~n", "~d", "~o", "~v", "~s">>,
      <<"M", "S", " ", "W", "i", "n", "d", "o", "w", "s">>>>,
    <<<<"G", "I", "T">>,
      <<"G", "i", "t">>,
      <<"~S", "~i", "~s", "~t", "~e", "~m", "~a", " ", "~k", "~o", "~n", "~t", "~r", "~o", "~l", "~ya", " ", "~v", "~e", "~r", "~s", "~i", "~j", " ", "G", "I", "T">>>>,
    <<<<"~M", "~T">>,
      <<"M", "T">>,
      <<"~M", "~o", "~j", "~S", "~k", "~l", "~a", "~d", "?">>,
      <<"~M", "~T", " ", "~k", "~a", "~s", "~s", "~y">>>>,
    <<<<"G", "L", "P", "I">>,
      <<"~g", "~l", "~p", "~i">>>>,
    <<<<"~O", "~F", "~D">>,
      <<"~o", "~f", "~d">>>>,
    <<<<"~D", "~i", "~a", "~d", "~o", "~k">>,
      <<"D", "i", "a", "d", "o", "c">>>>
>>

\* simplifications of _expand_query_variants: <<a, b>>
simplifications == <<
    <<<<"~N", "~e", " ", "~m", "~o", "~g", "~u", " ">>,
      <<"~N", "~e", " ", "~u", "~d", "~a", "~e", "~t", "~s", "~ya", " ">>>>,
    <<<<"~O", "~sh", "~i", "~b", "~k", "~a", " ">>,
      <<"~S", "~b", "~o", "~j", " ">>>>,
    <<<<"~n", "~e", " ", "~r", "~a", "~b", "~o", "~t", "~a", "~e", "~t">>,
      <<"~n", "~e", " ", "~f", "~u", "~n", "~k", "~c", "~i", "~o", "~n", "~i", "~r", "~u", "~e", "~t">>>>
>>

\* the value lists of keyword_variants, in dict order
keyword_variants == <<
    <<<<"d", "i", "a", "l", "o", "g">>,
      <<"~d", "~i", "~a", "~l", "~o", "~g">>,
      <<"~d", "~i", "~a", "~l", "~o", "~g", "~o", "~v", "~o", "~e", " ", "~o", "~k", "~n", "~o">>>>,
    <<<<"s", "a", "v", "e">>,
      <<"~s", "~o", "~h", "~r", "~a", "~n", "~e", "~n", "~i", "~e">>,
      <<"~s", "~o", "~h", "~r", "~a", "~n", "~i", "~t", "~q">>>>,
    <<<<"s", "y", "n", "c">>,
      <<"~s", "~i", "~n", "~h", "~r", "~o", "~n", "~i", "~z", "~a", "~c", "~i", "~ya">>,
      <<"~s", "~i", "~n", "~h", "~r", "~o", "~n", "~i", "~z", "~i", "~r", "~u", "~yu", "~t", "~s", "~ya">>>>
>>


\* s.lower()
Lower(s) == [i \in 1 .. Len(s) |-> LowerChar(s[i])]

\* the capital letters of the alphabet
Capitals ==
    {"A", "B", "C", "D", "E", "F", "G", "H", "I", "J", "K", "L", "M", "N",
     "O", "P", "Q", "R", "S", "T", "U", "V", "W", "X", "Y", "Z", "~A",
     "~B", "~V", "~G", "~D", "~E", "~ZH", "~Z", "~I", "~J", "~K", "~L",
     "~M", "~N", "~O", "~P", "~R", "~S", "~T", "~U", "~F", "~H", "~C",
     "~CH", "~SH", "~SCH", "~QH", "~Y", "~Q", "~EH", "~YU", "~YA"}

\* str.upper() on one character
UpperChar(c) ==
    IF \E u \in Capitals : LowerChar(u) = c
    THEN CHOOSE u \in Capitals : LowerChar(u) = c
    ELSE c

\* s.upper()
Upper(s) == [i \in 1 .. Len(s) |-> UpperChar(s[i])]

\* the characters str.strip() removes
IsSpace(c) == c \in {" ", "TAB", "NL"}

\* p occurs in s at position i
OccursAt(s, p, i) ==
    /\ i + Len(p) - 1 <= Len(s)
    /\ \A j \in 1 .. Len(p) : s[i + j - 1] = p[j]

\* p in s
Contains(s, p) == \E i \in 1 .. (Len(s) - Len(p) + 1) : OccursAt(s, p, i)

\* s.replace(a, b): the non-overlapping occurrences of a, left to right
RECURSIVE ReplaceFrom(_, _, _, _)
ReplaceFrom(s, a, b, i) ==
    IF i > Len(s) THEN <<>>
    ELSE IF OccursAt(s, a, i) THEN b \o ReplaceFrom(s, a, b, i + Len(a))
    ELSE <<s[i]>> \o ReplaceFrom(s, a, b, i + 1)

Replace(s, a, b) == ReplaceFrom(s, a, b, 1)

\* s.strip()
Strip(s) ==
    LET keep == {i \in 1 .. Len(s) : ~IsSpace(s[i])}
    IN  IF keep = {} THEN <<>>
        ELSE LET first == CHOOSE i \in keep : \A j \in keep : i <= j
                 last == CHOOSE i \in keep : \A j \in keep : j <= i
             IN  SubSeq(s, first, last)

\* while "  " in t: t = t.replace("  ", " ")
RECURSIVE CollapseSpaces(_)
CollapseSpaces(t) ==
    IF Contains(t, <<" ", " ">>)
    THEN CollapseSpaces(Replace(t, <<" ", " ">>, <<" ">>))
    ELSE t

\* the for loop over replacements.items(), from entry k on
RECURSIVE ApplyReplacements(_, _)
ApplyReplacements(t, k) ==
    IF k > Len(replacements) THEN t
    ELSE IF Contains(Lower(t), replacements[k][1])
    THEN ApplyReplacements(
             Replace(Lower(t), replacements[k][1], replacements[k][2]), k + 1)
    ELSE ApplyReplacements(t, k + 1)

\* RAGService._normalize_query
NormalizeQuery(text) ==
    IF text = <<>> THEN <<>>
    ELSE Strip(CollapseSpaces(ApplyReplacements(Strip(text), 1)))

\* add_replaced(orig, a, b): the variants it appends
AddReplaced(orig, a, b) ==
    IF Contains(orig, a) THEN <<Replace(orig, a, b)>> ELSE <<>>

\* for a in group: for b in group: if a != b: add_replaced(base, a, b),
\* from the pair (i, j) of the group on
RECURSIVE GroupVariants(_, _, _, _)
GroupVariants(base, group, i, j) ==
    IF i > Len(group) THEN <<>>
    ELSE IF j > Len(group) THEN GroupVariants(base, group, i + 1, 1)
    ELSE (IF group[i] # group[j]
          THEN AddReplaced(base, group[i], group[j]) ELSE <<>>)
         \o GroupVariants(base, group, i, j + 1)

\* the loop over a list of groups, from group g on
RECURSIVE GroupsVariants(_, _, _)
GroupsVariants(base, groups, g) ==
    IF g > Len(groups) THEN <<>>
    ELSE GroupVariants(base, groups[g], 1, 1)
         \o GroupsVariants(base, groups, g + 1)

\* for a, b in simplifications: add_replaced(base, a, b), from entry k on
RECURSIVE SimplifiedVariants(_, _)
SimplifiedVariants(base, k) ==
    IF k > Len(simplifications) THEN <<>>
    ELSE AddReplaced(base, simplifications[k][1], simplifications[k][2])
         \o SimplifiedVariants(base, k + 1)

\* ProducedVariants with the base query appended last instead of first
ProducedVariantsBaseLast(base) ==
    GroupsVariants(base, synonym_groups, 1)
        \o SimplifiedVariants(base, 1)
        \o GroupsVariants(base, keyword_variants, 1) \o <<base>>

\* the list variants of _expand_query_variants before deduplication
ProducedVariants(base) ==
    <<base>> \o GroupsVariants(base, synonym_groups, 1)
             \o SimplifiedVariants(base, 1)
             \o GroupsVariants(base, keyword_variants, 1)

\* MaxVariants with the loop leaving one element late
MaxVariantsLate == 9

\* most variants _expand_query_variants returns
MaxVariants == 8

\* DedupLoop comparing the variants themselves instead of their lower case
RECURSIVE DedupLoopCaseSensitive(_, _, _, _)
DedupLoopCaseSensitive(vs, k, deduped, seen) ==
    IF k > Len(vs) THEN deduped
    ELSE LET vv == Strip(vs[k])
             add == vv # <<>> /\ vv \notin seen
             deduped2 == IF add THEN Append(deduped, vv) ELSE deduped
             seen2 == IF add THEN seen \cup {vv} ELSE seen
         IN  IF Len(deduped2) >= MaxVariants THEN deduped2
             ELSE DedupLoopCaseSensitive(vs, k + 1, deduped2, seen2)

\* the deduplication loop, at element k of vs
RECURSIVE DedupLoop(_, _, _, _)
DedupLoop(vs, k, deduped, seen) ==
    IF k > Len(vs) THEN deduped
    ELSE LET vv == Strip(vs[k])
             add == vv # <<>> /\ Lower(vv) \notin seen
             deduped2 == IF add THEN Append(deduped, vv) ELSE deduped
             seen2 == IF add THEN seen \cup {Lower(vv)} ELSE seen
         IN  IF Len(deduped2) >= MaxVariants THEN deduped2
             ELSE DedupLoop(vs, k + 1, deduped2, seen2)

\* _expand_query_variants without its early return for an empty base
ExpandQueryVariantsNoGuard(text) ==
    DedupLoop(ProducedVariants(Strip(text)), 1, <<>>, {})

\* RAGService._expand_query_variants
ExpandQueryVariants(text) ==
    LET base == Strip(text)
    IN  IF base = <<>> THEN << <<>> >>
        ELSE DedupLoop(ProducedVariants(base), 1, <<>>, {})

----------------------------------------------------------------------------
(* Queries *)

wAutoCAD == <<"A", "u", "t", "o", "C", "A", "D">>

wExcel == <<"E", "x", "c", "e", "l">>

wMT == <<"~M", "~T">>

wGIT == <<"G", "I", "T">>

wAvtokad == <<"~A", "~v", "~t", "~o", "~k", "~a", "~d">>

wOFD == <<"~O", "~F", "~D">>


\* most words a question of the expansion check is made of
MaxWords == 4

Lexicon == {<<" ">>, wAutoCAD, wExcel, wMT, wGIT, wAvtokad}

\* the concatenations of at most n words of the lexicon
RECURSIVE Phrases(_)
Phrases(n) ==
    IF n = 0 THEN {<<>>}
    ELSE LET shorter == Phrases(n - 1)
         IN  shorter \cup {p \o w : p \in shorter, w \in Lexicon}

Questions == Phrases(MaxWords)

\* the halves of the replacement key "auto kad", written apart
wAuto == <<"~a", "~u", "~t", "~o">>

wKad == <<"~k", "~a", "~d">>

\* words of the questions the normalisation alone is run on
NormLexicon == {<<" ">>, <<"TAB">>, wAuto, wKad}

\* the concatenations of at most n words of NormLexicon
RECURSIVE NormPhrases(_)
NormPhrases(n) ==
    IF n = 0 THEN {<<>>}
    ELSE LET shorter == NormPhrases(n - 1)
         IN  shorter \cup {p \o w : p \in shorter, w \in NormLexicon}

NormQuestions == NormPhrases(MaxWords)

----------------------------------------------------------------------------
(* generate_response, step 0: normalisation and expansion *)

\* "response_model" of the settings: unset, one of the four known prefixes,
\* or any other text
ResponseModels == {"", "ollama:", "mistral:", "openai:", "anthropic:", "other"}

\* no prompt made yet: the context is a block that _build_context never makes
NoPrompt == [question |-> <<>>, context |-> <<[kind |-> "none", n |-> 0, id |-> 0]>>]
NoResult == [returned |-> FALSE]
NoResp == [status |-> "none"]
NoResponse == [sent |-> FALSE]

NoReport == [status |-> "none"]
NoObservation == [seen |-> FALSE]
NoCollection == [exists |-> FALSE, ids |-> {}]
NoArgs == [fn |-> "none"]
NoReturn == [returned |-> FALSE]
NoAgents == {}

\* request.user_id of the requests of the model, and another user
User == "u1"
OtherUser == "u2"

\* the collection holding ids
Collection(ids) == [exists |-> TRUE, ids |-> ids]

\* no reindex has begun and no function is run on its own
NoReindex ==
    /\ rpc = "idle"
    /\ fetched = <<>>
    /\ total = 0
    /\ processed = 0
    /\ report = NoReport
    /\ replaced = collection.ids
    /\ observed = NoObservation
    /\ index_fault = "none"
    /\ args = NoArgs
    /\ ret = NoReturn

\* the locals of send_message and generate_response before they run on
\* question
Locals(question) ==
    /\ user_question = question
    /\ normalized = <<>>
    /\ variants = <<>>
    /\ vi = 0
    /\ collected = <<>>
    /\ collected_docs = <<>>
    /\ relevant_articles = <<>>
    /\ relevant_documents = <<>>
    /\ seenArt = <<>>
    /\ seenDoc = <<>>
    /\ allArt = <<>>
    /\ allDoc = <<>>
    /\ repeated = FALSE
    /\ refVi = 0
    /\ refDi = 0
    /\ prompt = NoPrompt
    /\ attempt = 0
    /\ slept = <<>>
    /\ ai_response = ""
    /\ resp = NoResp
    /\ calls = <<>>
    /\ ncall = 1
    /\ prevCalls = <<>>
    /\ chat_messages = <<>>
    /\ result = NoResult
    /\ fault = "none"
    /\ response = NoResponse
    /\ message = question
    /\ es_context = <<>>
    /\ es_articles = <<>>
    /\ es_fault = "none"

\* a user without session state
NoSessions ==
    /\ current = 0
    /\ sessions = <<>>
    /\ history = <<>>

\* a request of question with the Elasticsearch agent off that
\* generate_response has not begun to serve, by a user without session state,
\* in a process that created no agent
Request(question) ==
    /\ pc = "received"
    /\ Locals(question)
    /\ NoSessions
    /\ use_elasticsearch = FALSE
    /\ agents = NoAgents
    /\ active_agent = ""
    /\ procs = <<>>
    /\ served = 0

\* the state before generate_response runs on question, every article of the
\* store in the index
Received(question) ==
    /\ articles \in Stores(ArticleIds)
    /\ documents \in Stores(DocumentIds)
    /\ response_model \in ResponseModels
    /\ Request(question)
    /\ collection = Collection(articles)
    /\ NoReindex

\* normalized = self._normalize_query(user_question)
Normalize ==
    /\ pc = "received"
    /\ normalized' = NormalizeQuery(user_question)
    /\ pc' = "normalized"
    /\ UNCHANGED <<storeVars, sideVars, response_model, genVars, dbVars, chatVars, user_question, variants, loopVars, resultVars, histVars>>

\* variants = self._expand_query_variants(normalized)
Expand ==
    /\ pc = "normalized"
    /\ variants' = ExpandQueryVariants(normalized)
    /\ pc' = "expanded"
    /\ UNCHANGED <<storeVars, sideVars, response_model, genVars, dbVars, chatVars, user_question, normalized, loopVars, resultVars, histVars>>

InitExpand ==
    /\ \E question \in Questions : Received(question)
    /\ articles = {}
    /\ documents = {}
    /\ response_model = ""

NextExpand == Normalize \/ Expand

\* normalisation and expansion of every question of the lexicon
SpecExpand == InitExpand /\ [][NextExpand]_vars

InitNormalize ==
    /\ \E question \in NormQuestions : Received(question)
    /\ articles = {}
    /\ documents = {}
    /\ response_model = ""

NextNormalize == Normalize

\* normalisation of questions with whitespace inside a replacement key
SpecNormalize == InitNormalize /\ [][NextNormalize]_vars

----------------------------------------------------------------------------
(* generate_response, step 1: the hybrid retrieval loop and the merge *)

\* the question the retrieval is run on: it has three variants
OrchQuestions == {wExcel}

\* a hit: the entity found, with the variant whose search returned this copy
Hit(id, q) == [id |-> id, q |-> q]

\* The id lists an adapter can return from a store: duplicate-free, at most
\* MaxHits long. The loop treats ids only by equality, so the ids are numbered
\* in the order of their first return: after seen, a list brings the ids not
\* yet returned in increasing order, mixed in any way with ids of seen.
IdLists(store, seen) ==
    {s \in InjSeqs(store, MaxHits) :
        \A k \in 1 .. Len(s) :
            s[k] \in Range(seen) \/
            s[k] = Len(seen) + Cardinality({j \in 1 .. k : s[j] \notin Range(seen)})}

Ids(hits) == [k \in 1 .. Len(hits) |-> hits[k].id]

\* the hit lists of one adapter for variant q
HitLists(store, seen, q) ==
    {[k \in 1 .. Len(s) |-> Hit(s[k], q)] : s \in IdLists(store, Ids(seen))}

\* d.setdefault(hit.id, hit) storing the hit in place of the entry it finds
SetDefaultOverwrite(d, hit) ==
    IF \E k \in 1 .. Len(d) : d[k].id = hit.id
    THEN [k \in 1 .. Len(d) |-> IF d[k].id = hit.id THEN hit ELSE d[k]]
    ELSE Append(d, hit)

\* d.setdefault(hit.id, hit) putting a new entry first
SetDefaultNewestFirst(d, hit) ==
    IF \E k \in 1 .. Len(d) : d[k].id = hit.id THEN d ELSE <<hit>> \o d

\* d.setdefault(hit.id, hit) on a dict kept as the list of its values in
\* insertion order
SetDefault(d, hit) ==
    IF \E k \in 1 .. Len(d) : d[k].id = hit.id THEN d ELSE Append(d, hit)

\* for x in hits: d.setdefault(x.id, x), from element k on
RECURSIVE FoldHits(_, _, _)
FoldHits(d, hits, k) ==
    IF k > Len(hits) THEN d
    ELSE FoldHits(SetDefault(d, hits[k]), hits, k + 1)

\* the elements of s without the repetitions of earlier elements
FirstDistinct(s) ==
    LET first == {i \in 1 .. Len(s) : \A j \in 1 .. (i - 1) : s[j] # s[i]}
    IN  [k \in 1 .. Cardinality(first) |->
            s[CHOOSE i \in first : Cardinality({j \in first : j <= i}) = k]]

\* for q in variants: the next variant, or the end of the loop
NextVariant ==
    /\ pc \in {"expanded", "loop"}
    /\ IF vi < Len(variants)
       THEN vi' = vi + 1 /\ refVi' = vi + 1 /\ refDi' = vi + 1 /\ pc' = "semantic"
       ELSE vi' = vi /\ refVi' = refVi /\ refDi' = refDi /\ pc' = "merge"
    /\ UNCHANGED <<storeVars, sideVars, response_model, genVars, dbVars, chatVars, queryVars, collected,
                   collected_docs, resultVars, seenArt, seenDoc, allArt, allDoc, repeated>>

\* generate_response raises out of the loop
Raise ==
    /\ pc' = "raised"
    /\ UNCHANGED <<collected, collected_docs, histVars>>

\* for art in hits: collected.setdefault(art.id, art), then on to the adapter
\* at next
FoldArticles(hits, next) ==
    /\ collected' = FoldHits(collected, hits, 1)
    /\ seenArt' = FirstDistinct(seenArt \o Ids(hits))
    /\ allArt' = FoldHits(allArt, hits, 1)
    /\ repeated' = (repeated \/ \E k \in 1 .. Len(hits) : hits[k].id \in Range(seenArt))
    /\ pc' = next
    /\ UNCHANGED <<collected_docs, seenDoc, allDoc, refVi, refDi>>

\* for doc in hits: collected_docs.setdefault(doc.id, doc)
FoldDocuments(hits, next) ==
    /\ collected_docs' = FoldHits(collected_docs, hits, 1)
    /\ seenDoc' = FirstDistinct(seenDoc \o Ids(hits))
    /\ allDoc' = FoldHits(allDoc, hits, 1)
    /\ repeated' = (repeated \/ \E k \in 1 .. Len(hits) : hits[k].id \in Range(seenDoc))
    /\ pc' = next
    /\ UNCHANGED <<collected, seenArt, allArt, refVi, refDi>>

\* the ids collection.query can return whose article get_article finds
IndexedArticles == IF collection.exists THEN collection.ids \cap articles ELSE {}

\* _search_semantic ranking the articles of the store, whatever the index
\* holds
SearchSemanticFromStore ==
    /\ pc = "semantic"
    /\ \/ \E found \in HitLists(articles, allArt, vi) : FoldArticles(found, "text")
       \/ FoldArticles(<<>>, "text")
       \/ HitLists(articles, allArt, vi) # {<<>>} /\ Raise
    /\ UNCHANGED <<storeVars, sideVars, response_model, genVars, dbVars, chatVars, queryVars, vi, resultVars>>

\* for art in self._search_semantic(q, k=5): collected.setdefault(art.id, art)
\* The index query is inside the adapter's try, the article lookups are not.
SearchSemantic ==
    /\ pc = "semantic"
    /\ \/ \E found \in HitLists(IndexedArticles, allArt, vi) : FoldArticles(found, "text")
       \/ FoldArticles(<<>>, "text")                          \* the index query fails
       \/ HitLists(IndexedArticles, allArt, vi) # {<<>>} /\ Raise  \* get_article fails
    /\ UNCHANGED <<storeVars, sideVars, response_model, genVars, dbVars, chatVars, queryVars, vi, resultVars>>

\* for art in self.db_service.search_articles_for_rag(q, limit=5): ...
\* Neither the adapter nor the loop catches a failure of the query.
SearchText ==
    /\ pc = "text"
    /\ \/ \E hits \in HitLists(articles, allArt, vi) : FoldArticles(hits, "meta")
       \/ Raise                                               \* the query fails
    /\ UNCHANGED <<storeVars, sideVars, response_model, genVars, dbVars, chatVars, queryVars, vi, resultVars>>

\* for art in self._search_by_meta(q, limit=5): ...
\* _search_by_meta catches a failure of the query and returns [].
SearchMeta ==
    /\ pc = "meta"
    /\ \/ \E found \in HitLists(articles, allArt, vi) : FoldArticles(found, "docs")
       \/ FoldArticles(<<>>, "docs")                          \* the query fails
    /\ UNCHANGED <<storeVars, sideVars, response_model, genVars, dbVars, chatVars, queryVars, vi, resultVars>>

\* for doc in self.doc_service.search_documents_for_rag(q, limit=5): ...
\* The document service is called for its list, which may be empty.
SearchDocuments ==
    /\ pc = "docs"
    /\ \E found \in HitLists(documents, allDoc, vi) : FoldDocuments(found, "check")
    /\ UNCHANGED <<storeVars, sideVars, response_model, genVars, dbVars, chatVars, queryVars, vi, resultVars>>

\* the condition of the break with either cap enough
CapsReachedEither(arts, docs) ==
    Len(arts) >= ArticleCap \/ Len(docs) >= DocumentCap

\* len(collected) >= 5 and len(collected_docs) >= 3
CapsReached(arts, docs) == Len(arts) >= ArticleCap /\ Len(docs) >= DocumentCap

\* the end of a variant without the break
CheckCapsNoBreak ==
    /\ pc = "check"
    /\ pc' = "loop"
    /\ UNCHANGED <<storeVars, sideVars, response_model, genVars, dbVars, chatVars, queryVars, loopVars, resultVars, histVars>>

\* if len(collected) >= 5 and len(collected_docs) >= 3: break
CheckCaps ==
    /\ pc = "check"
    /\ pc' = IF CapsReached(collected, collected_docs) THEN "merge" ELSE "loop"
    /\ UNCHANGED <<storeVars, sideVars, response_model, genVars, dbVars, chatVars, queryVars, loopVars, resultVars, histVars>>

\* After the break: the articles the adapters hold for the next variant the
\* loop did not try. Only the map of the loop that tries every variant records
\* them.
UntriedArticles ==
    /\ pc = "merge"
    /\ refVi < Len(variants)
    /\ refVi' = refVi + 1
    /\ \E arts \in HitLists(articles, allArt, refVi + 1) :
           allArt' = FoldHits(allArt, arts, 1)
    /\ UNCHANGED <<storeVars, sideVars, response_model, genVars, dbVars, chatVars, pc, queryVars, loopVars,
                   resultVars, seenArt, seenDoc, allDoc, repeated, refDi>>

\* After the break: the documents the adapter holds for the next variant the
\* loop did not try.
UntriedDocuments ==
    /\ pc = "merge"
    /\ refDi < Len(variants)
    /\ refDi' = refDi + 1
    /\ \E docs \in HitLists(documents, allDoc, refDi + 1) :
           allDoc' = FoldHits(allDoc, docs, 1)
    /\ UNCHANGED <<storeVars, sideVars, response_model, genVars, dbVars, chatVars, pc, queryVars, loopVars,
                   resultVars, seenArt, seenDoc, allArt, repeated, refVi>>

\* s[:n] without the cut
TakeAll(s, n) == s

\* s[:n]
Take(s, n) == SubSeq(s, 1, Min(n, Len(s)))

\* relevant_articles = list(collected.values())[:5]
\* relevant_documents = list(collected_docs.values())[:3]
Merge ==
    /\ pc = "merge"
    /\ relevant_articles' = Take(collected, ArticleCap)
    /\ relevant_documents' = Take(collected_docs, DocumentCap)
    /\ pc' = "merged"
    /\ UNCHANGED <<storeVars, sideVars, response_model, genVars, dbVars, chatVars, queryVars, loopVars, histVars>>

InitRetrieve ==
    /\ \E question \in OrchQuestions : Received(question)
    /\ articles = ArticleIds
    /\ documents = DocumentIds
    /\ response_model = ""

NextRetrieve ==
    \/ Normalize
    \/ Expand
    \/ NextVariant
    \/ SearchSemantic
    \/ SearchText
    \/ SearchMeta
    \/ SearchDocuments
    \/ CheckCaps
    \/ UntriedArticles
    \/ UntriedDocuments
    \/ Merge

\* the retrieval of one generate_response call over stores larger than the caps
SpecRetrieve == InitRetrieve /\ [][NextRetrieve]_vars

----------------------------------------------------------------------------
(* Steps 2 to 5 of generate_response: context, prompt, generation, saving *)

\* the provider text: a non-empty completion, or the empty one
Completions == {"text", ""}

\* "Извините, временно недоступен сервис генерации. Повторите попытку позже."
Apology == "Izvinite, vremenno nedostupen servis generacii. Povtorite popytku pozzhe."

\* f"Ошибка генерации ответа: {str(e)}"
GenerationError == "Oshibka generacii otveta"

\* range(4): the attempts of _generate_with_mistral
Attempts == 4

\* range(4): the attempt the loop starts at, taken from the call before
FirstAttemptKept == attempt

\* range(4): the attempt the loop starts at
FirstAttempt == 0

\* 0.5 s, the first wait, in ms
BaseDelay == 500

\* 5.0 s, the longest wait after a 429, in ms
MaxDelay == 5000

\* the addresses _generate_with_ollama_async tries in turn
OllamaUrls == 3

\* the Retry-After header of a 429 in ms: absent, or a number of seconds
RetryAfter == {<<>>, <<1000>>, <<7000>>}

\* 0.5 * (2 ** attempt)
Backoff(k) == BaseDelay * (2 ^ k)

\* the wait after a 429 without the cut at 5.0
RateLimitDelayUncapped(hint, k) == IF hint # <<>> THEN hint[1] ELSE Backoff(k)

\* the wait after a 429 with the Retry-After header not read
RateLimitDelayNoHint(hint, k) == Min(Backoff(k), MaxDelay)

\* delay = float(retry_after) if retry_after else 0.5 * (2 ** attempt);
\* the wait is min(delay, 5.0)
RateLimitDelay(hint, k) ==
    Min(IF hint # <<>> THEN hint[1] ELSE Backoff(k), MaxDelay)

\* _get_current_model_info()["model_type"]
ModelType(rm) ==
    CASE rm = "" -> "mistral"
      [] rm = "ollama:" -> "ollama"
      [] rm = "mistral:" -> "mistral"
      [] rm = "openai:" -> "openai"
      [] rm = "anthropic:" -> "anthropic"
      [] OTHER -> "unknown"

\* the response models served by a client of their own
OwnClient == {"ollama:", "mistral:", "openai:", "anthropic:"}

\* the requests one call of the client of rm makes at most
Requests(rm) == IF rm = "ollama:" THEN OllamaUrls ELSE 1

\* n requests to provider
Copies(provider, n) == [k \in 1 .. n |-> provider]

\* _build_context: one block per article, numbered from 1, then one block per
\* document, numbered on from the articles
BuildContext(arts, docs) ==
    [k \in 1 .. Len(arts) |-> [kind |-> "article", n |-> k, id |-> arts[k].id]]
    \o [k \in 1 .. Len(docs) |->
            [kind |-> "document", n |-> Len(arts) + k, id |-> docs[k].id]]

\* if not relevant_articles and not relevant_documents: the prompt is made of
\* the question and "", else of the question and the context
CreatePrompt ==
    /\ pc = "merged"
    /\ prompt' = [question |-> user_question,
                  context |-> IF relevant_articles = <<>> /\ relevant_documents = <<>>
                              THEN <<>>
                              ELSE BuildContext(relevant_articles, relevant_documents)]
    /\ pc' = "generate"
    /\ UNCHANGED <<retrievalVars, response_model, attempt, slept, ai_response, resp,
                   calls, ncall, prevCalls, dbVars, chatVars>>

\* _generate_with_ai_settings: no model configured, or a prefix it does not
\* know, goes to _generate_with_mistral; a known prefix to its own client
SelectProvider ==
    /\ pc = "generate"
    /\ IF response_model \in OwnClient
       THEN pc' = "provider" /\ attempt' = attempt
       ELSE pc' = "mistral" /\ attempt' = FirstAttempt
    /\ UNCHANGED <<retrievalVars, response_model, prompt, slept, ai_response, resp,
                   calls, ncall, prevCalls, dbVars, chatVars>>

\* await _generate_with_<provider>_async(...): its completion is the answer, a
\* failure falls back on _generate_with_mistral. The Ollama client tries its
\* addresses in turn, the others make one request.
CallProvider ==
    /\ pc = "provider"
    /\ \/ \E text \in Completions, n \in 1 .. Requests(response_model) :
            /\ calls' = calls \o Copies(ModelType(response_model), n)
            /\ resp' = [status |-> "ok", text |-> text]
            /\ ai_response' = text
            /\ pc' = "generated"
            /\ attempt' = attempt
       \/ /\ calls' = calls \o Copies(ModelType(response_model),
                                      Requests(response_model))
          /\ resp' = [status |-> "error"]
          /\ ai_response' = ai_response
          /\ pc' = "mistral"
          /\ attempt' = FirstAttempt
    /\ UNCHANGED <<retrievalVars, response_model, prompt, slept, ncall, prevCalls,
                   dbVars, chatVars>>

\* one pass of for attempt in range(4) of _generate_with_mistral
MistralAttempt ==
    /\ pc = "mistral"
    /\ attempt < Attempts
    /\ calls' = Append(calls, "mistral")
    /\ \/ \E text \in Completions :                     \* 200: return message or ""
            /\ resp' = [status |-> "ok", text |-> text]
            /\ ai_response' = text
            /\ pc' = "generated"
            /\ UNCHANGED <<attempt, slept>>
       \/ \E hint \in RetryAfter :                      \* 429
            /\ resp' = [status |-> "rate_limited", retry_after |-> hint]
            /\ slept' = Append(slept, RateLimitDelay(hint, attempt))
            /\ attempt' = attempt + 1
            /\ UNCHANGED <<ai_response, pc>>
       \/ /\ resp' = [status |-> "error"]               \* except Exception
          /\ slept' = Append(slept, Backoff(attempt))
          /\ attempt' = attempt + 1
          /\ UNCHANGED <<ai_response, pc>>
    /\ UNCHANGED <<retrievalVars, response_model, prompt, ncall, prevCalls, dbVars,
                   chatVars>>

\* After the last attempt with the NameError not caught: the handler of
\* _generate_with_ai_settings answers with the text of the error.
OllamaFallbackUncaught ==
    /\ pc = "mistral"
    /\ attempt = Attempts
    /\ ai_response' = GenerationError
    /\ pc' = "generated"
    /\ UNCHANGED <<retrievalVars, response_model, prompt, attempt, slept, resp, calls,
                   ncall, prevCalls, dbVars, chatVars>>

\* After the last attempt with no handler around the fallback: the NameError
\* leaves the chain
OllamaFallbackRaises ==
    /\ pc = "mistral"
    /\ attempt = Attempts
    /\ ai_response' = ai_response
    /\ pc' = "raised"
    /\ UNCHANGED <<retrievalVars, response_model, prompt, attempt, slept, resp, calls,
                   ncall, prevCalls, dbVars, chatVars>>

\* After the last attempt: return _generate_with_ollama(prompt). The module has
\* no function of that name, the NameError is caught and the apology returned;
\* no request is made.
OllamaFallback ==
    /\ pc = "mistral"
    /\ attempt = Attempts
    /\ ai_response' = Apology
    /\ pc' = "generated"
    /\ UNCHANGED <<retrievalVars, response_model, prompt, attempt, slept, resp, calls,
                   ncall, prevCalls, dbVars, chatVars>>

\* save_chat_message storing the turn twice
SaveChatMessageTwice ==
    /\ pc = "generated"
    /\ LET turn(n) == [id |-> n,
                       message |-> user_question,
                       response |-> ai_response,
                       related_article_ids |->
                           Ids(relevant_articles) \o Ids(relevant_documents)]
       IN  chat_messages' =
               chat_messages \o <<turn(Len(chat_messages) + 1),
                                  turn(Len(chat_messages) + 2)>>
    /\ pc' = "saved"
    /\ UNCHANGED <<retrievalVars, response_model, genVars, result, chatVars>>

\* chat_message = self.db_service.save_chat_message(...): a new row with the
\* next id, or the failure of the commit, which generate_response does not
\* catch
SaveChatMessage ==
    /\ pc = "generated"
    /\ \/ /\ chat_messages' = Append(chat_messages,
                [id |-> Len(chat_messages) + 1,
                 message |-> user_question,
                 response |-> ai_response,
                 related_article_ids |->
                     Ids(relevant_articles) \o Ids(relevant_documents)])
          /\ pc' = "saved"
       \/ /\ chat_messages' = chat_messages
          /\ pc' = "save_raised"
    /\ UNCHANGED <<retrievalVars, response_model, genVars, result, chatVars>>

\* return {"response": ..., "related_articles": ..., "model_info": ...,
\* "message_id": chat_message.id}; the branch without hits has no
\* "related_documents"
Return ==
    /\ pc = "saved"
    /\ LET base == [returned |-> TRUE,
                    response |-> ai_response,
                    related_articles |-> relevant_articles,
                    model_type |-> ModelType(response_model),
                    message_id |-> chat_messages[Len(chat_messages)].id]
       IN  result' = IF relevant_articles = <<>> /\ relevant_documents = <<>>
                     THEN base
                     ELSE [k \in DOMAIN base \cup {"related_documents"} |->
                              IF k = "related_documents" THEN relevant_documents
                              ELSE base[k]]
    /\ pc' = "returned"
    /\ UNCHANGED <<retrievalVars, response_model, genVars, chat_messages, chatVars>>

----------------------------------------------------------------------------
(* send_message of app/api/chat.py around generate_response                 *)

\* f"Извините, произошла ошибка: {str(e)[:100]}. Попробуйте повторить запрос
\* позже."
FallbackText == "Izvinite, proizoshla oshibka. Poprobujte povtorit zapros pozzhe."

\* _MemoryRedis.rpush: self._lists.setdefault(key, []).append(value)
Rpush(lists, key, value) ==
    [k \in DOMAIN lists \cup {key} |->
        IF k = key
        THEN (IF key \in DOMAIN lists THEN lists[key] ELSE <<>>) \o <<value>>
        ELSE lists[k]]

\* _session_key: f"chat:history:{user_id}:{session_id}"
SessionKey(user_id, session_id) == <<user_id, session_id>>

\* _current_session_id: the current session, 1 when none is set yet
CurrentSessionId == IF current = 0 THEN 1 ELSE current

\* the entry pushed with the message handed to generate_response
PushHistoryWithContext(answer) ==
    /\ current' = CurrentSessionId
    /\ sessions' = IF current = 0 THEN Append(sessions, 1) ELSE sessions
    /\ history' = Rpush(history, SessionKey(User, CurrentSessionId),
                         [q |-> user_question, a |-> answer])

\* _current_session_id on a user without a session sets the current session
\* and appends it to the session list; then the entry is pushed to the history
\* of the current session
PushHistory(answer) ==
    /\ current' = CurrentSessionId
    /\ sessions' = IF current = 0 THEN Append(sessions, 1) ELSE sessions
    /\ history' = Rpush(history, SessionKey(User, CurrentSessionId),
                         [q |-> message, a |-> answer])

\* result.get(key) giving the name of a missing key
GetKey(d, key, default) == IF key \in DOMAIN d THEN d[key] ELSE <<key>>

\* result.get("related_documents", [])
Get(d, key, default) == IF key \in DOMAIN d THEN d[key] ELSE default

\* an article the Elasticsearch branch loaded from the article store
EsArticle(id) == Hit(id, 0)

\* the loop over es_articles: an article whose id existing_ids holds is
\* skipped, any other is appended and its id added to existing_ids; an id that
\* is falsy is skipped
RECURSIVE AddEsArticles(_, _)
AddEsArticles(result_articles, es) ==
    IF es = <<>> THEN result_articles
    ELSE LET existing_ids == Range(Ids(result_articles))
             article_id == Head(es).id
         IN  AddEsArticles(IF article_id # 0 /\ article_id \notin existing_ids
                           THEN Append(result_articles, Head(es))
                           ELSE result_articles,
                           Tail(es))

\* the loop over es_articles without the test on existing_ids
AddEsArticlesAll(result_articles, es) == result_articles \o es

\* result["related_articles"] after "if es_articles:"
WithEsArticles(result_articles, es) ==
    IF es # <<>> THEN AddEsArticles(result_articles, es) ELSE result_articles

\* After generate_response returned: the articles of the Elasticsearch
\* branch are added to the result, then the history entry, then the
\* ChatMessageResponse made of the result. A failure of the history store goes
\* to the handler of send_message.
Respond ==
    /\ pc = "returned"
    /\ \/ /\ PushHistory(result.response)
          /\ response' = [sent |-> TRUE,
                          status |-> 200,
                          response |-> result.response,
                          related_articles |->
                              WithEsArticles(Get(result, "related_articles", <<>>),
                                             es_articles),
                          related_documents |-> Get(result, "related_documents", <<>>),
                          model_type |-> Get(result, "model_type", "none"),
                          message_id |-> result.message_id]
          /\ pc' = "responded"
       \/ /\ pc' = "history_raised"
          /\ UNCHANGED <<current, sessions, history, response>>
    /\ UNCHANGED <<retrievalVars, response_model, genVars, dbVars, fault>>

\* except Exception as e of send_message: the fallback text is saved as a turn
\* and pushed to the history, and answered with no related article; if the
\* save or the push fails, HTTPException(status_code=500) is raised
CatchFault ==
    /\ pc \in {"raised", "save_raised", "history_raised"}
    /\ fault' = pc
    /\ \/ /\ chat_messages' = Append(chat_messages,
                [id |-> Len(chat_messages) + 1,
                 message |-> message,
                 response |-> FallbackText,
                 related_article_ids |-> <<>>])
          /\ PushHistory(FallbackText)
          /\ response' = [sent |-> TRUE,
                          status |-> 200,
                          response |-> FallbackText,
                          related_articles |-> <<>>,
                          related_documents |-> <<>>,
                          model_type |-> "none",
                          message_id |-> Len(chat_messages) + 1]
          /\ pc' = "responded"
       \/ /\ chat_messages' \in
                {chat_messages,
                 Append(chat_messages,
                    [id |-> Len(chat_messages) + 1,
                     message |-> message,
                     response |-> FallbackText,
                     related_article_ids |-> <<>>])}
          /\ response' = [sent |-> TRUE, status |-> 500]
          /\ pc' = "http_500"
          /\ UNCHANGED <<current, sessions, history>>
    /\ UNCHANGED <<retrievalVars, response_model, genVars, result>>

\* one call of send_message over stores of at most one article and one
\* document, under every setting of the response model
Init ==
    /\ \E question \in OrchQuestions : Received(question)
    /\ articles \in {{}, {1}}
    /\ documents \in {{}, {1}}

Next ==
    \/ Normalize
    \/ Expand
    \/ NextVariant
    \/ SearchSemantic
    \/ SearchText
    \/ SearchMeta
    \/ SearchDocuments
    \/ CheckCaps
    \/ Merge
    \/ CreatePrompt
    \/ SelectProvider
    \/ CallProvider
    \/ MistralAttempt
    \/ OllamaFallback
    \/ SaveChatMessage
    \/ Return
    \/ Respond
    \/ CatchFault

Spec == Init /\ [][Next]_vars

----------------------------------------------------------------------------
(* The provider chain called again and again with one prompt *)

\* generate calls in a row
MaxCalls == 2

\* the next call of _generate_with_ai_settings: the settings are read again,
\* the locals of the call before are gone
NextCall ==
    /\ pc = "generated"
    /\ ncall < MaxCalls
    /\ ncall' = ncall + 1
    /\ prevCalls' = calls
    /\ calls' = <<>>
    /\ slept' = <<>>
    /\ resp' = NoResp
    /\ ai_response' = ""
    /\ pc' = "generate"
    /\ UNCHANGED <<retrievalVars, response_model, prompt, attempt, dbVars, chatVars>>

InitGenerate ==
    /\ Received(<<>>)
    /\ articles = {}
    /\ documents = {}

NextGenerate ==
    \/ Normalize
    \/ Expand
    \/ NextVariant
    \/ SearchSemantic
    \/ SearchText
    \/ SearchMeta
    \/ SearchDocuments
    \/ CheckCaps
    \/ Merge
    \/ CreatePrompt
    \/ SelectProvider
    \/ CallProvider
    \/ MistralAttempt
    \/ OllamaFallback
    \/ NextCall

\* generate calls in a row for a question without hits
SpecGenerate == InitGenerate /\ [][NextGenerate]_vars

----------------------------------------------------------------------------
(* _build_context on its own: the texts of the blocks                        *)

\* article.text[:1000] and doc.extracted_text[:1000]
BodyLimit == 1000

\* chunk.text[:500]
ChunkLimit == 500

\* relevant_chunks[:3]
MaxChunks == 3

\* chunks[:2]
FallbackChunks == 2

\* '...'
Ellipsis == <<".", ".", ".">>

\* 'Не извлечено'
NotExtracted == <<"~N", "~e", " ", "~i", "~z", "~v", "~l", "~e", "~ch", "~e", "~n", "~o">>

\* f"{text[:limit]}{'...' if len(text) > limit else ''}" without the marker
TruncatedBare(text, limit) == SubSeq(text, 1, Min(limit, Len(text)))

\* f"{text[:limit]}{'...' if len(text) > limit else ''}"
Truncated(text, limit) ==
    SubSeq(text, 1, Min(limit, Len(text)))
        \o (IF Len(text) > limit THEN Ellipsis ELSE <<>>)

\* chunk.text and query_lower in chunk.text.lower()
ChunkMatches(text, query) == text # <<>> /\ Contains(Lower(text), Lower(query))

\* _search_document_chunks with no fallback on the first chunks
SearchDocumentChunksNoFallback(lookup, query) ==
    IF lookup.failed \/ lookup.chunks = <<>> THEN <<>>
    ELSE SelectSeq(lookup.chunks, LAMBDA text : ChunkMatches(text, query))

\* RAGService._search_document_chunks: lookup is what get_document_chunks
\* gives, the texts of the chunks in storage order or a failure
SearchDocumentChunks(lookup, query) ==
    IF lookup.failed \/ lookup.chunks = <<>> THEN <<>>
    ELSE LET relevant_chunks ==
                 SelectSeq(lookup.chunks, LAMBDA text : ChunkMatches(text, query))
         IN  IF relevant_chunks = <<>>
             THEN SubSeq(lookup.chunks, 1, Min(FallbackChunks, Len(lookup.chunks)))
             ELSE relevant_chunks

\* the block of article number i
ArticleBlock(article, i) ==
    [kind |-> "article", n |-> i,
     text |-> Truncated(article.text, BodyLimit),
     url |-> IF article.url = "" THEN "Ne ukazan" ELSE article.url]

\* the block of document number i, with the chunks found for query
DocumentBlock(doc, i, query) ==
    LET relevant_chunks == SearchDocumentChunks(doc.lookup, query)
        shown == SubSeq(relevant_chunks, 1, Min(MaxChunks, Len(relevant_chunks)))
    IN  [kind |-> "document", n |-> i,
         fragments |-> [j \in 1 .. Len(shown) |-> Truncated(shown[j], ChunkLimit)],
         content |-> IF relevant_chunks # <<>> THEN <<>>
                     ELSE IF doc.extracted_text # <<>>
                     THEN Truncated(doc.extracted_text, BodyLimit)
                     ELSE NotExtracted,
         summary |-> IF doc.summary = "" THEN "Ne sozdano" ELSE doc.summary]

\* RAGService._build_context: the blocks of the articles, numbered from 1,
\* then the blocks of the documents, numbered on; the chunks of a document
\* are searched for the text of the first article, or for ""
BuildContextTexts(arts, docs) ==
    LET query == IF arts # <<>> THEN arts[1].text ELSE <<>>
    IN  [i \in 1 .. Len(arts) |-> ArticleBlock(arts[i], i)]
        \o [i \in 1 .. Len(docs) |-> DocumentBlock(docs[i], Len(arts) + i, query)]

\* context = self._build_context(relevant_articles, relevant_documents)
BuildContextAlone ==
    /\ args.fn = "_build_context"
    /\ ~ret.returned
    /\ ret' = [returned |-> TRUE,
               context |-> BuildContextTexts(args.articles, args.documents)]
    /\ UNCHANGED <<storeVars, indexVars, args, moreVars, response_model, pc, queryVars, loopVars,
                   resultVars, histVars, genVars, dbVars, chatVars>>

DigitChars == <<"0", "1", "2", "3", "4", "5", "6", "7", "8", "9">>

\* a text of n characters that differ from their neighbours
Digits(n) == [i \in 1 .. n |-> DigitChars[(i % 10) + 1]]

\* bodies of articles and extracted texts: short, and around the limit
Bodies == {wExcel, Digits(BodyLimit - 1), Digits(BodyLimit), Digits(BodyLimit + 1)}

\* texts of chunks: with the word of the short body in either case, without
\* it, empty, and around the limit
ChunkTexts ==
    {<<"m", "s", " ">> \o Lower(wExcel), Upper(wExcel), wGIT, <<>>,
     Digits(ChunkLimit), wExcel \o Digits(ChunkLimit - 4)}

\* what get_document_chunks gives: a failure, or up to two chunks, or four
\* of which three or all hold the word
Lookups ==
    {[failed |-> TRUE, chunks |-> <<>>]} \cup
    {[failed |-> FALSE, chunks |-> c] :
        c \in {<<>>} \cup {<<x>> : x \in ChunkTexts}
              \cup {<<x, y>> : x, y \in ChunkTexts}
              \cup {<<wGIT, Upper(wExcel), x, wExcel, Lower(wExcel)>> : x \in ChunkTexts}
              \cup {<<wGIT, Digits(ChunkLimit), x>> : x \in ChunkTexts}}

ContextArticles ==
    {<<>>} \cup {<<[text |-> t, url |-> u]>> : t \in Bodies, u \in {"", "url"}}
           \cup {<<[text |-> wGIT, url |-> ""], [text |-> wExcel, url |-> ""]>>}

ContextDocuments ==
    {<<>>} \cup
    {<<[lookup |-> l, extracted_text |-> t, summary |-> "summary"]>> :
        l \in Lookups, t \in {<<>>, Digits(BodyLimit), Digits(BodyLimit + 1)}}
    \cup
    {<<[lookup |-> [failed |-> FALSE, chunks |-> <<>>], extracted_text |-> <<>>,
        summary |-> ""],
       [lookup |-> [failed |-> FALSE, chunks |-> <<x>>], extracted_text |-> <<>>,
        summary |-> ""]>> : x \in ChunkTexts}

InitContext ==
    /\ Request(<<>>)
    /\ articles = {}
    /\ documents = {}
    /\ response_model = ""
    /\ collection = Collection(articles)
    /\ rpc = "idle"
    /\ fetched = <<>>
    /\ total = 0
    /\ processed = 0
    /\ report = NoReport
    /\ replaced = collection.ids
    /\ observed = NoObservation
    /\ index_fault = "none"
    /\ ret = NoReturn
    /\ \E arts \in ContextArticles, docs \in ContextDocuments :
           args = [fn |-> "_build_context", articles |-> arts, documents |-> docs]

NextContext == BuildContextAlone

\* the context of every pair of the article and document lists
SpecContext == InitContext /\ [][NextContext]_vars

----------------------------------------------------------------------------
(* The metadata adapter on its own: _search_by_meta and                      *)
(* DatabaseService.search_articles_by_meta                                   *)

\* a character of the class [\w\-] among the characters of the alphabet
IsTokenChar(c) == ~IsSpace(c) /\ c # "?"

\* longest token re.findall takes at a position
MaxTokenLen == 32

\* shortest token re.findall keeps
MinTokenLen == 2

\* the end of the run of token characters that begins at i, at most
\* MaxTokenLen long
RunEnd(s, i) ==
    LET ends == {j \in i .. Min(Len(s), i + MaxTokenLen - 1) :
                    \A k \in i .. j : IsTokenChar(s[k])}
    IN  CHOOSE j \in ends : \A k \in ends : k <= j

\* re.findall(r"[\w\-]{2,32}", query), from position i on
RECURSIVE FindTokens(_, _)
FindTokens(s, i) ==
    IF i > Len(s) THEN <<>>
    ELSE IF ~IsTokenChar(s[i]) THEN FindTokens(s, i + 1)
    ELSE LET j == RunEnd(s, i)
         IN  IF j - i + 1 >= MinTokenLen
             THEN <<SubSeq(s, i, j)>> \o FindTokens(s, j + 1)
             ELSE FindTokens(s, j + 1)

\* toks = [t.upper() for t in tokens if t and len(t) >= 2]
UpperTokens(tokens) ==
    {Upper(tokens[k]) : k \in {n \in 1 .. Len(tokens) : Len(tokens[n]) >= 2}}

\* the rows of the join of the articles with their names in table (tags or
\* categories) whose name is one of names
JoinRows(table, names) ==
    {<<a, n>> : a \in DOMAIN table, n \in names} \cap
    UNION {{<<a, n>> : n \in table[a]} : a \in DOMAIN table}

\* query.limit(n).all(): any n of the rows, all of them when there are fewer
Limited(rows, n) ==
    {chosen \in SUBSET rows : Cardinality(chosen) = Min(n, Cardinality(rows))}

\* DatabaseService.search_articles_by_meta: the sets of articles it can
\* return; the tags are matched against toks and the categories against
\* tokens
SearchArticlesByMeta(tokens, limit, tags, categories) ==
    IF tokens = <<>> \/ UpperTokens(tokens) = {} THEN {{}}
    ELSE UNION {UNION {
             Limited({row[1] : row \in tag_rows \cup cat_rows}, limit) :
                 cat_rows \in Limited(JoinRows(categories, Range(tokens)),
                                      limit * 2)} :
                 tag_rows \in Limited(JoinRows(tags, UpperTokens(tokens)),
                                      limit * 2)}

\* RAGService._search_by_meta(query, limit): the query may fail, and then the
\* adapter returns []
SearchByMeta ==
    /\ args.fn = "_search_by_meta"
    /\ ~ret.returned
    /\ \/ \E found \in SearchArticlesByMeta(FindTokens(args.query, 1), args.limit,
                                             args.tags, args.categories) :
              ret' = [returned |-> TRUE, failed |-> FALSE, ids |-> found]
       \/ ret' = [returned |-> TRUE, failed |-> TRUE, ids |-> {}]
    /\ UNCHANGED <<storeVars, indexVars, args, moreVars, response_model, pc, queryVars, loopVars,
                   resultVars, histVars, genVars, dbVars, chatVars>>

\* names of tags and categories
wEXCEL == Upper(wExcel)

wExcelLower == Lower(wExcel)

TagNames == {wEXCEL, wGIT}

CategoryNames == {wEXCEL, wExcelLower}

\* the queries of the metadata adapter: no token, a token of one letter,
\* tokens in lower, upper and mixed case
MetaQueries ==
    {<<>>, <<"e">>, wExcelLower, wEXCEL, wExcel \o <<" ">> \o Lower(wGIT) \o <<"?">>}

\* limit of the adapter
MetaLimits == {1, 5}

InitMeta ==
    /\ Request(<<>>)
    /\ articles = 1 .. 2
    /\ documents = {}
    /\ response_model = ""
    /\ collection = Collection(articles)
    /\ rpc = "idle"
    /\ fetched = <<>>
    /\ total = 0
    /\ processed = 0
    /\ report = NoReport
    /\ replaced = collection.ids
    /\ observed = NoObservation
    /\ index_fault = "none"
    /\ ret = NoReturn
    /\ \E query \in MetaQueries, limit \in MetaLimits,
          tags \in [articles -> SUBSET TagNames],
          categories \in [articles -> SUBSET CategoryNames] :
           args = [fn |-> "_search_by_meta", query |-> query, limit |-> limit,
                   tags |-> tags, categories |-> categories]

NextMeta == SearchByMeta

\* the metadata adapter over two articles with tags and categories
SpecMeta == InitMeta /\ [][NextMeta]_vars

----------------------------------------------------------------------------
(* reindex_articles: the vector index is dropped and built again from the   *)
(* articles of the store                                                     *)

\* batch_size of reindex_articles
BatchSize == 10

\* limit of the get_articles call of reindex_articles
ReindexLimit == 10000

\* most articles created in the model after a reindex
MaxCreated == 1

\* get_articles(skip, limit): the rows after the first skip, at most limit,
\* and the count of all rows; the store holds the ids 1 .. n and the query
\* returns them in this order
GetArticles(store, skip, limit) ==
    LET n == Cardinality(store)
    IN  <<[k \in 1 .. (Min(skip + limit, n) - Min(skip, n)) |-> Min(skip, n) + k], n>>

\* ids of batch_articles = articles[i:i + batch_size]
BatchIds(list, i) == {list[k] : k \in (i + 1) .. Min(i + BatchSize, Len(list))}

\* for i in range(0, len(articles), batch_size): collection.add(ids=ids, ...)
AddBatches(ids, list) ==
    ids \cup UNION {BatchIds(list, b * BatchSize) :
                        b \in 0 .. ((Len(list) - 1) \div BatchSize)}

\* reindex_articles run with no other request beside it
ReindexArticles ==
    /\ rpc = "idle"
    /\ LET got == GetArticles(articles, 0, ReindexLimit)
       IN  /\ fetched' = got[1]
           /\ total' = got[2]
           /\ \/ /\ collection' = Collection(IF got[2] = 0 THEN {}
                                              ELSE AddBatches({}, got[1]))
                 /\ processed' = IF got[2] = 0 THEN 0 ELSE Len(got[1])
                 /\ report' = [status |-> "success", total_articles |-> got[2]]
                 /\ rpc' = "done"
                 /\ index_fault' = index_fault
              \/ /\ collection.exists         \* delete_collection fails, so
                 /\ rpc' = "raised"           \* create_collection raises
                 /\ index_fault' = "delete"
                 /\ UNCHANGED <<collection, processed, report>>
    /\ UNCHANGED <<storeVars, replaced, observed, callVars, moreVars, response_model, pc, queryVars,
                   loopVars, resultVars, histVars, genVars, dbVars, chatVars>>

\* articles, total = self.db_service.get_articles(skip=0, limit=10000)
ReindexBegin ==
    /\ rpc = "idle"
    /\ fetched' = GetArticles(articles, 0, ReindexLimit)[1]
    /\ total' = GetArticles(articles, 0, ReindexLimit)[2]
    /\ rpc' = "delete"
    /\ UNCHANGED <<storeVars, collection, processed, report, replaced, observed,
                   index_fault, callVars, moreVars, response_model, pc, queryVars, loopVars,
                   resultVars, histVars, genVars, dbVars, chatVars>>

\* try: self.chroma_client.delete_collection("kb_articles") except: pass
DeleteCollection ==
    /\ rpc = "delete"
    /\ \/ collection' = NoCollection /\ index_fault' = index_fault
       \/ /\ collection.exists                  \* the deletion fails
          /\ collection' = collection
          /\ index_fault' = "delete"
    /\ rpc' = "create"
    /\ UNCHANGED <<storeVars, fetched, total, processed, report, replaced, observed, callVars,
                   moreVars, response_model, pc, queryVars, loopVars, resultVars, histVars, genVars,
                   dbVars, chatVars>>

\* self.collection = self.chroma_client.create_collection(name="kb_articles"),
\* which raises when the collection exists; if total == 0: return
CreateCollection ==
    /\ rpc = "create"
    /\ IF collection.exists
       THEN rpc' = "raised" /\ UNCHANGED <<collection, report>>
       ELSE /\ collection' = Collection({})
            /\ IF total = 0
               THEN /\ report' = [status |-> "success", total_articles |-> 0]
                    /\ rpc' = "done"
               ELSE /\ report' = report
                    /\ rpc' = "batches"
    /\ UNCHANGED <<storeVars, fetched, total, processed, replaced, observed, index_fault, callVars,
                   moreVars, response_model, pc, queryVars, loopVars, resultVars, histVars, genVars,
                   dbVars, chatVars>>

\* one turn of the for loop: self.collection.add(ids=ids, ...) of the next
\* batch, which may raise
AddBatch ==
    /\ rpc = "batches"
    /\ processed < Len(fetched)
    /\ \/ /\ collection' = Collection(collection.ids \cup BatchIds(fetched, processed))
          /\ processed' = processed + Cardinality(BatchIds(fetched, processed))
          /\ rpc' = rpc
          /\ index_fault' = index_fault
       \/ /\ rpc' = "raised"
          /\ index_fault' = "add"
          /\ UNCHANGED <<collection, processed>>
    /\ UNCHANGED <<storeVars, fetched, total, report, replaced, observed, callVars,
                   moreVars, response_model, pc, queryVars, loopVars, resultVars, histVars, genVars,
                   dbVars, chatVars>>

\* return {"message": ..., "total_articles": total, "status": "success"}
ReindexReturn ==
    /\ rpc = "batches"
    /\ processed >= Len(fetched)
    /\ report' = [status |-> "success", total_articles |-> total]
    /\ rpc' = "done"
    /\ UNCHANGED <<storeVars, collection, fetched, total, processed, replaced, observed,
                   index_fault, callVars, moreVars, response_model, pc, queryVars, loopVars, resultVars, histVars,
                   genVars, dbVars, chatVars>>

\* _search_semantic of another request: res = self.collection.query(...), the
\* ids of the collection as it is now, or [] when the query raises because
\* the collection is gone
ConcurrentSearch ==
    /\ observed' = [seen |-> TRUE, during |-> rpc,
                    ids |-> IF collection.exists THEN collection.ids ELSE {}]
    /\ UNCHANGED <<storeVars, collection, rpc, fetched, total, processed, report, replaced,
                   index_fault, callVars, moreVars, response_model, pc, queryVars, loopVars, resultVars, histVars,
                   genVars, dbVars, chatVars>>

\* DatabaseService.create_article: a new row with the next id; nothing is
\* added to the index
CreateArticle ==
    /\ Cardinality(articles) < MaxCreated
    /\ articles' = articles \cup {Cardinality(articles) + 1}
    /\ UNCHANGED <<documents, sideVars, response_model, pc, queryVars, loopVars, resultVars,
                   histVars, genVars, dbVars, chatVars>>

\* what the index holds before a reindex: nothing, the articles of the store,
\* or entries of articles that are deleted by now
OldCollections == {NoCollection} \cup {Collection(ids) : ids \in SUBSET (1 .. 3)}

\* the state before reindex_articles runs
BeforeReindex(stores) ==
    /\ articles \in stores
    /\ documents = {}
    /\ response_model = ""
    /\ collection \in OldCollections
    /\ NoReindex

InitReindex == Request(<<>>) /\ BeforeReindex({{}, 1 .. 2, 1 .. (BatchSize + 1)})

NextReindex ==
    \/ ReindexBegin
    \/ DeleteCollection
    \/ CreateCollection
    \/ AddBatch
    \/ ReindexReturn
    \/ ConcurrentSearch

\* a reindex with the vector searches of other requests beside it
SpecReindex == InitReindex /\ [][NextReindex]_vars

InitRebuild ==
    /\ Request(<<>>)
    /\ BeforeReindex({{}, 1 .. 1, 1 .. 2, 1 .. BatchSize, 1 .. (BatchSize + 1),
                      1 .. (ReindexLimit + 1)})

NextRebuild == ReindexArticles

\* a reindex on its own, over stores up to one article past the limit
SpecRebuild == InitRebuild /\ [][NextRebuild]_vars

InitEmptyIndex ==
    /\ \E question \in OrchQuestions : Request(question)
    /\ BeforeReindex({{}})

NextEmptyIndex ==
    \/ ReindexArticles
    \/ CreateArticle
    \/ Normalize
    \/ Expand
    \/ NextVariant
    \/ SearchSemantic
    \/ SearchText
    \/ SearchMeta
    \/ SearchDocuments
    \/ CheckCaps
    \/ Merge

\* a reindex of the empty store, articles created after it, and a request
SpecEmptyIndex == InitEmptyIndex /\ [][NextEmptyIndex]_vars

----------------------------------------------------------------------------
(* send_message before generate_response: the Elasticsearch branch           *)

\* agent types create_agent knows
AgentTypes == {"mistral", "ollama", "bert_spacy"}

\* ElasticSearchAgentService.get_agent(): the active agent, "" for None
GetAgent == IF active_agent # "" /\ active_agent \in agents THEN active_agent ELSE ""

\* longest list agent.search returns in the model (the code asks for size=5)
MaxEsHits == 2

\* article ids of the hits: 0 for a hit without article_id, the id of an
\* article of the store, the id of an article that is gone from the store
EsArticleIds == 0 .. 2

\* one hit of agent.search: result["data"] with its article_id
EsHit(article_id) == [article_id |-> article_id, title |-> <<"T">>, text |-> <<"x">>]

RECURSIVE SeqsUpTo(_, _)
SeqsUpTo(S, n) ==
    IF n = 0 THEN {<<>>}
    ELSE LET shorter == SeqsUpTo(S, n - 1)
         IN  shorter \cup UNION {{Append(s, x) : x \in S} : s \in shorter}

\* what agent.search can return
EsResults == SeqsUpTo({EsHit(id) : id \in EsArticleIds}, MaxEsHits)

\* "\n\nРелевантные статьи из базы знаний:\n", shortened
EsHeader == <<"NL", "NL", "~R", "~s", ":", "NL">>

\* f"{idx}" for idx below 10
Str(idx) == <<DigitChars[idx + 1]>>

\* es_context after the loop over search_results
RECURSIVE EsContext(_, _)
EsContext(search_results, idx) ==
    IF idx > Len(search_results) THEN <<>>
    ELSE LET data == search_results[idx]
         IN  (IF data.title # <<>>
              THEN <<"NL">> \o Str(idx) \o <<".", " ">> \o data.title \o <<"NL">>
              ELSE <<>>)
             \o (IF data.text # <<>> THEN data.text \o <<"NL">> ELSE <<>>)
             \o EsContext(search_results, idx + 1)

\* article_ids of the loop over search_results: the truthy article ids
ArticleIdsOf(search_results) ==
    SelectSeq([k \in 1 .. Len(search_results) |-> search_results[k].article_id],
              LAMBDA id : id # 0)

\* es_articles: the articles of article_ids the store holds, in the order of
\* article_ids
LoadEsArticles(article_ids) ==
    LET found == SelectSeq(article_ids, LAMBDA id : id \in articles)
    IN  [k \in 1 .. Len(found) |-> EsArticle(found[k])]

\* message_with_context with the separator also before an empty context
MessageWithContextAlways(context) == message \o <<"NL", "NL">> \o context

\* message_with_context
MessageWithContext(context) ==
    IF context # <<>> THEN message \o <<"NL", "NL">> \o context ELSE message

\* The Elasticsearch branch of send_message up to the call of
\* generate_response. The active agent is taken, or a bert_spacy agent is
\* created and made active; a failure of the creation leaves no agent and the
\* branch is skipped. The search of the agent gives hits or raises; the hits
\* make es_context, and the articles of their ids are loaded from the store,
\* which can raise too. Every exception ends the branch where it is.
SearchElasticsearch ==
    /\ pc = "request"
    /\ \E created \in BOOLEAN, outcome \in {"raised", "found", "load_raised"},
          search_results \in EsResults :
          LET agent == IF ~use_elasticsearch THEN ""
                       ELSE IF GetAgent # "" THEN GetAgent
                       ELSE IF created THEN "bert_spacy" ELSE ""
              context == IF agent # "" /\ outcome # "raised" /\ search_results # <<>>
                         THEN EsHeader \o EsContext(search_results, 1)
                         ELSE <<>>
          IN  /\ (~use_elasticsearch \/ GetAgent # "") => ~created
              /\ agent = "" => (outcome = "raised" /\ search_results = <<>>)
              /\ outcome = "raised" => search_results = <<>>
              /\ outcome = "load_raised" => ArticleIdsOf(search_results) # <<>>
              /\ agents' = IF created THEN agents \cup {"bert_spacy"} ELSE agents
              /\ active_agent' = IF created THEN "bert_spacy" ELSE active_agent
              /\ es_context' = context
              /\ es_articles' = IF context # <<>> /\ outcome = "found"
                                THEN LoadEsArticles(ArticleIdsOf(search_results))
                                ELSE <<>>
              /\ es_fault' = IF ~use_elasticsearch THEN "none"
                              ELSE IF agent = "" THEN "create"
                              ELSE IF outcome = "raised" THEN "search"
                              ELSE IF outcome = "load_raised" THEN "load"
                              ELSE "none"
              /\ user_question' = MessageWithContext(context)
    /\ pc' = "received"
    /\ UNCHANGED <<storeVars, indexVars, callVars, message, use_elasticsearch, procs,
                   served, response_model, normalized, variants, loopVars, resultVars,
                   histVars, genVars, dbVars, chatVars>>

\* The merge of send_message on its own
MergeEsArticles ==
    /\ args.fn = "merge_es_articles"
    /\ ~ret.returned
    /\ ret' = [returned |-> TRUE,
               related_articles |->
                   WithEsArticles(args.result_articles, args.es_articles)]
    /\ UNCHANGED <<storeVars, indexVars, args, esVars, agentVars, procs, served,
                   response_model, pc, queryVars, loopVars, resultVars, histVars, genVars, dbVars,
                   chatVars>>

\* no request is served, no reindex runs, and a function is about to run on
\* its own
CalledAlone ==
    /\ Request(<<>>)
    /\ documents = {}
    /\ response_model = ""
    /\ collection = Collection(articles)
    /\ rpc = "idle"
    /\ fetched = <<>>
    /\ total = 0
    /\ processed = 0
    /\ report = NoReport
    /\ replaced = collection.ids
    /\ observed = NoObservation
    /\ index_fault = "none"
    /\ ret = NoReturn

\* ids of the articles Elasticsearch can bring on top of the capped list
MergeIds == 1 .. (ArticleCap + MaxEsHits)

\* the related articles of generate_response: at most 5, with distinct ids,
\* numbered in their order; the articles of the Elasticsearch branch: any
\* articles of the store, an article possibly twice
InitMergeEs ==
    /\ articles = MergeIds
    /\ CalledAlone
    /\ \E n \in 0 .. ArticleCap,
          es \in SeqsUpTo({EsArticle(id) : id \in MergeIds}, MaxEsHits) :
           args = [fn |-> "merge_es_articles",
                   result_articles |-> [k \in 1 .. n |-> Hit(k, 1)],
                   es_articles |-> es]

NextMergeEs == MergeEsArticles

SpecMergeEs == InitMergeEs /\ [][NextMergeEs]_vars

\* the history of an earlier session of the user and of a session of another
\* user
EarlierHistory ==
    [k \in {SessionKey(User, 1), SessionKey(OtherUser, 1)} |->
        <<[q |-> wGIT, a |-> "text"]>>]

\* a user in the second session, the first one with a history
EarlierSessions ==
    /\ current = 2
    /\ sessions = <<1, 2>>
    /\ history = EarlierHistory

\* one call of send_message with the Elasticsearch agent on or off, by a new
\* user or a user with an earlier session, over a store of one article
InitChat ==
    /\ pc = "request"
    /\ Locals(wExcel)
    /\ articles = {1}
    /\ documents = {}
    /\ response_model \in {"", "openai:"}
    /\ collection = Collection(articles)
    /\ NoReindex
    /\ use_elasticsearch \in BOOLEAN
    /\ \/ agents = NoAgents /\ active_agent = ""
       \/ agents = {"bert_spacy"} /\ active_agent = "bert_spacy"
    /\ procs = <<>>
    /\ served = 0
    /\ NoSessions \/ EarlierSessions

NextChat ==
    \/ SearchElasticsearch
    \/ Normalize
    \/ Expand
    \/ NextVariant
    \/ SearchSemantic
    \/ SearchText
    \/ SearchMeta
    \/ SearchDocuments
    \/ CheckCaps
    \/ Merge
    \/ CreatePrompt
    \/ SelectProvider
    \/ CallProvider
    \/ MistralAttempt
    \/ OllamaFallback
    \/ SaveChatMessage
    \/ Return
    \/ Respond
    \/ CatchFault

SpecChat == InitChat /\ [][NextChat]_vars

----------------------------------------------------------------------------
(* The chat endpoints of one user called one after another: send_message,    *)
(* get_history and new_chat over the session store                           *)

\* calls of the endpoints in a row
MaxRequests == 2

\* _MemoryRedis.lrange(key, 0, -1): the whole list, [] for a key without list
Lrange(lists, key) == IF key \in DOMAIN lists THEN lists[key] ELSE <<>>

\* no call of an endpoint is running
BetweenCalls == pc \in {"idle", "responded", "http_500"}

\* the locals of a new call of send_message on question; the rows of the chat
\* message table stay
NewLocals(question) ==
    /\ user_question' = question
    /\ normalized' = <<>>
    /\ variants' = <<>>
    /\ vi' = 0
    /\ collected' = <<>>
    /\ collected_docs' = <<>>
    /\ relevant_articles' = <<>>
    /\ relevant_documents' = <<>>
    /\ seenArt' = <<>>
    /\ seenDoc' = <<>>
    /\ allArt' = <<>>
    /\ allDoc' = <<>>
    /\ repeated' = FALSE
    /\ refVi' = 0
    /\ refDi' = 0
    /\ prompt' = NoPrompt
    /\ attempt' = 0
    /\ slept' = <<>>
    /\ ai_response' = ""
    /\ resp' = NoResp
    /\ calls' = <<>>
    /\ ncall' = 1
    /\ prevCalls' = <<>>
    /\ result' = NoResult
    /\ fault' = "none"
    /\ response' = NoResponse
    /\ message' = question
    /\ es_context' = <<>>
    /\ es_articles' = <<>>
    /\ es_fault' = "none"

\* POST /message arrives: the locals of send_message are new
Receive ==
    /\ BetweenCalls
    /\ served < MaxRequests
    /\ served' = served + 1
    /\ pc' = "request"
    /\ NewLocals(wExcel)
    /\ UNCHANGED <<storeVars, indexVars, callVars, use_elasticsearch, agentVars, procs,
                   response_model, chat_messages, current, sessions, history>>

\* _current_session_id of get_history setting the current session without
\* the entry of the session list
GetHistoryNoList ==
    /\ BetweenCalls
    /\ served < MaxRequests
    /\ served' = served + 1
    /\ \E session_id \in 0 .. MaxRequests :
          LET sid == IF session_id # 0 THEN session_id ELSE CurrentSessionId
          IN  /\ current' = IF session_id # 0 THEN current ELSE CurrentSessionId
              /\ sessions' = sessions
              /\ ret' = [returned |-> TRUE, fn |-> "get_history", n |-> served',
                         history |-> IF SessionKey(User, sid) \in DOMAIN history
                                     THEN history[SessionKey(User, sid)] ELSE <<>>,
                         current_session |-> sid,
                         sessions |-> sessions']
    /\ UNCHANGED <<storeVars, indexVars, args, esVars, agentVars, procs, response_model,
                   pc, queryVars, loopVars, resultVars, histVars, genVars, dbVars,
                   fault, history, response>>

\* _start_new_session without the step to the next id
StartNewSessionSame ==
    /\ current' = CurrentSessionId
    /\ sessions' = (IF current = 0 THEN Append(sessions, 1) ELSE sessions)
                       \o <<CurrentSessionId>>

\* _start_new_session: cur = _current_session_id(user_id), which makes session
\* 1 for a user without one; then the next id is made current and appended to
\* the session list
StartNewSession ==
    /\ current' = CurrentSessionId + 1
    /\ sessions' = (IF current = 0 THEN Append(sessions, 1) ELSE sessions)
                       \o <<CurrentSessionId + 1>>

\* POST /new_chat
NewChat ==
    /\ BetweenCalls
    /\ served < MaxRequests
    /\ served' = served + 1
    /\ StartNewSession
    /\ ret' = [returned |-> TRUE, fn |-> "new_chat", n |-> served',
               session_id |-> current']
    /\ UNCHANGED <<storeVars, indexVars, args, esVars, agentVars, procs, response_model,
                   pc, queryVars, loopVars, resultVars, histVars, genVars, dbVars,
                   fault, history, response>>

\* the session_id arguments of get_history: 0 for none
SessionArgs == 0 .. MaxRequests

\* GET /history: sid = session_id or _current_session_id(user_id), so without
\* session_id a user without a session gets session 1
GetHistory ==
    /\ BetweenCalls
    /\ served < MaxRequests
    /\ served' = served + 1
    /\ \E session_id \in SessionArgs :
          LET sid == IF session_id # 0 THEN session_id ELSE CurrentSessionId
          IN  /\ current' = IF session_id # 0 THEN current ELSE CurrentSessionId
              /\ sessions' = IF session_id = 0 /\ current = 0
                             THEN Append(sessions, 1) ELSE sessions
              /\ ret' = [returned |-> TRUE, fn |-> "get_history", n |-> served',
                         history |-> Lrange(history, SessionKey(User, sid)),
                         current_session |-> sid,
                         sessions |-> sessions']
    /\ UNCHANGED <<storeVars, indexVars, args, esVars, agentVars, procs, response_model,
                   pc, queryVars, loopVars, resultVars, histVars, genVars, dbVars,
                   fault, history, response>>

\* no call of an endpoint has begun, the stores are empty and the
\* Elasticsearch agent is off
Idle ==
    /\ pc = "idle"
    /\ Locals(<<>>)
    /\ articles = {}
    /\ documents = {}
    /\ collection = Collection(articles)
    /\ NoReindex
    /\ use_elasticsearch = FALSE

\* a new user, another user with a history, the Elasticsearch agent off, the
\* stores empty
InitSessions ==
    /\ Idle
    /\ response_model \in {"", "openai:"}
    /\ agents = NoAgents
    /\ active_agent = ""
    /\ procs = <<>>
    /\ served = 0
    /\ current = 0
    /\ sessions = <<>>
    /\ history = [k \in {SessionKey(OtherUser, 1)} |-> <<[q |-> wGIT, a |-> "text"]>>]

NextSessions ==
    \/ Receive
    \/ NewChat
    \/ GetHistory
    \/ SearchElasticsearch
    \/ Normalize
    \/ Expand
    \/ NextVariant
    \/ SearchSemantic
    \/ SearchText
    \/ SearchMeta
    \/ SearchDocuments
    \/ CheckCaps
    \/ Merge
    \/ CreatePrompt
    \/ SelectProvider
    \/ CallProvider
    \/ MistralAttempt
    \/ OllamaFallback
    \/ SaveChatMessage
    \/ Return
    \/ Respond
    \/ CatchFault

SpecSessions == InitSessions /\ [][NextSessions]_vars

----------------------------------------------------------------------------
(* Requests of one user running _start_new_session and _current_session_id   *)
(* side by side on the shared store, one store command at a time             *)

\* requests running side by side
MaxProcs == 2

Procs == 1 .. MaxProcs

\* a request that has not begun: new_chat, or a request that asks for the
\* current session (send_message, get_history)
NotStarted(fn) == [fn |-> fn, at |-> "get", cur |-> 0, session_id |-> 0]

\* the step of p to position at with the fields of upd set
Step(p, upd) ==
    procs' = [procs EXCEPT ![p] = [k \in DOMAIN procs[p] |->
                                      IF k \in DOMAIN upd THEN upd[k] ELSE procs[p][k]]]

sessionFrame ==
    <<storeVars, indexVars, callVars, esVars, agentVars, served, response_model, pc,
      queryVars, loopVars, resultVars, histVars, genVars, dbVars, fault, history,
      response>>

\* cur = redis_client.get(f"chat:current:{user_id}")
SessionGet(p) ==
    /\ procs[p].at = "get"
    /\ IF current = 0
       THEN Step(p, [at |-> "init_set"])
       ELSE IF procs[p].fn = "new_chat"
            THEN Step(p, [at |-> "set", cur |-> current])
            ELSE Step(p, [at |-> "done", cur |-> current, session_id |-> current])
    /\ UNCHANGED <<current, sessions, sessionFrame>>

\* redis_client.set(f"chat:current:{user_id}", 1)
SessionInitSet(p) ==
    /\ procs[p].at = "init_set"
    /\ current' = 1
    /\ Step(p, [at |-> "init_rpush"])
    /\ UNCHANGED <<sessions, sessionFrame>>

\* redis_client.rpush(f"chat:sessions:{user_id}", 1); return 1
SessionInitRpush(p) ==
    /\ procs[p].at = "init_rpush"
    /\ sessions' = Append(sessions, 1)
    /\ IF procs[p].fn = "new_chat"
       THEN Step(p, [at |-> "set", cur |-> 1])
       ELSE Step(p, [at |-> "done", cur |-> 1, session_id |-> 1])
    /\ UNCHANGED <<current, sessionFrame>>

\* new_id = cur + 1; redis_client.set(f"chat:current:{user_id}", new_id)
SessionSet(p) ==
    /\ procs[p].at = "set"
    /\ current' = procs[p].cur + 1
    /\ Step(p, [at |-> "rpush"])
    /\ UNCHANGED <<sessions, sessionFrame>>

\* redis_client.rpush(f"chat:sessions:{user_id}", new_id); return new_id
SessionRpush(p) ==
    /\ procs[p].at = "rpush"
    /\ sessions' = Append(sessions, procs[p].cur + 1)
    /\ Step(p, [at |-> "done", session_id |-> procs[p].cur + 1])
    /\ UNCHANGED <<current, sessionFrame>>

\* a new user or a user in session 1, and requests of both kinds
InitConcurrent ==
    /\ Idle
    /\ response_model = ""
    /\ agents = NoAgents
    /\ active_agent = ""
    /\ served = 0
    /\ history = <<>>
    /\ \/ current = 0 /\ sessions = <<>>
       \/ current = 1 /\ sessions = <<1>>
    /\ procs \in [Procs -> {NotStarted("new_chat"), NotStarted("current")}]

NextConcurrent ==
    \/ \E p \in Procs : SessionGet(p)
    \/ \E p \in Procs : SessionInitSet(p)
    \/ \E p \in Procs : SessionInitRpush(p)
    \/ \E p \in Procs : SessionSet(p)
    \/ \E p \in Procs : SessionRpush(p)

SpecConcurrent == InitConcurrent /\ [][NextConcurrent]_vars

----------------------------------------------------------------------------
(* The registry of ElasticSearchAgentService: create_agent, set_active_agent  *)
(* and the endpoint POST /api/elasticsearch/agent/create                      *)

\* the agent types of the calls: the three known ones and another
CalledTypes == AgentTypes \cup {"unknown"}

\* a call of the registry arrives
CallRegistry ==
    /\ args.fn = "none" \/ ret.returned
    /\ \E fn \in {"create_agent", "set_active_agent", "agent_create"},
          agent_type \in CalledTypes :
           args' = [fn |-> fn, agent_type |-> agent_type]
    /\ ret' = NoReturn
    /\ UNCHANGED <<storeVars, indexVars, moreVars, response_model, pc, queryVars,
                   loopVars, resultVars, histVars, genVars, dbVars, chatVars>>

registryFrame ==
    <<storeVars, indexVars, args, esVars, procs, served, response_model, pc, queryVars,
      loopVars, resultVars, histVars, genVars, dbVars, chatVars>>

\* ElasticSearchAgentService.create_agent: an unknown type raises ValueError,
\* the constructor of the agent may raise; the agent made is put in _agents
CreateAgent ==
    /\ args.fn = "create_agent"
    /\ ~ret.returned
    /\ \/ /\ args.agent_type \in AgentTypes
          /\ agents' = agents \cup {args.agent_type}
          /\ ret' = [returned |-> TRUE, raised |-> FALSE]
       \/ /\ agents' = agents
          /\ ret' = [returned |-> TRUE, raised |-> TRUE]
    /\ UNCHANGED <<active_agent, registryFrame>>

\* set_active_agent without the test on _agents
SetActiveAgentUnchecked ==
    /\ args.fn = "set_active_agent"
    /\ ~ret.returned
    /\ active_agent' = args.agent_type
    /\ ret' = [returned |-> TRUE, raised |-> FALSE]
    /\ UNCHANGED <<agents, registryFrame>>

\* ElasticSearchAgentService.set_active_agent
SetActiveAgent ==
    /\ args.fn = "set_active_agent"
    /\ ~ret.returned
    /\ IF args.agent_type \notin agents
       THEN /\ active_agent' = active_agent
            /\ ret' = [returned |-> TRUE, raised |-> TRUE]
       ELSE /\ active_agent' = args.agent_type
            /\ ret' = [returned |-> TRUE, raised |-> FALSE]
    /\ UNCHANGED <<agents, registryFrame>>

\* POST /agent/create: HTTP 400 for an unknown type and for a failure of
\* create_agent; else the agent is created and made active
CreateAgentEndpoint ==
    /\ args.fn = "agent_create"
    /\ ~ret.returned
    /\ \/ /\ args.agent_type \in AgentTypes
          /\ agents' = agents \cup {args.agent_type}
          /\ active_agent' = args.agent_type
          /\ ret' = [returned |-> TRUE, raised |-> FALSE]
       \/ /\ agents' = agents
          /\ active_agent' = active_agent
          /\ ret' = [returned |-> TRUE, raised |-> TRUE]
    /\ UNCHANGED registryFrame

\* a process that created no agent yet
InitAgents ==
    /\ Idle
    /\ response_model = ""
    /\ agents = NoAgents
    /\ active_agent = ""
    /\ procs = <<>>
    /\ served = 0
    /\ NoSessions

NextAgents ==
    \/ CallRegistry
    \/ CreateAgent
    \/ SetActiveAgent
    \/ CreateAgentEndpoint

SpecAgents == InitAgents /\ [][NextAgents]_vars

----------------------------------------------------------------------------
(* _search_semantic on its own: the ids of the index and the article store   *)

\* int(i) of an id of the index, the inverse of str(a.id) for ids below 10
IntOf(i) == CHOOSE d \in 0 .. 9 : Str(d) = i

\* the articles get_article finds for every id, also for one gone from the
\* store
FoundArticlesUnchecked(ids, store) == ids

\* the loop over ids: art = self.db_service.get_article(id_); if art:
\* results.append(art)
FoundArticles(ids, store) == SelectSeq(ids, LAMBDA id : id \in store)

\* RAGService._search_semantic(query, k): the query of the collection gives
\* the ids in the order of the ranking, or raises, and then the adapter
\* returns []
SearchSemanticAlone ==
    /\ args.fn = "_search_semantic"
    /\ ~ret.returned
    /\ \/ LET ids == [k \in 1 .. Len(args.res) |-> IntOf(args.res[k])]
          IN  ret' = [returned |-> TRUE, failed |-> FALSE,
                      ids |-> FoundArticles(ids, articles)]
       \/ ret' = [returned |-> TRUE, failed |-> TRUE, ids |-> <<>>]
    /\ UNCHANGED <<storeVars, indexVars, args, moreVars, response_model, pc, queryVars,
                   loopVars, resultVars, histVars, genVars, dbVars, chatVars>>

\* ids the index may hold: those of the articles indexed at the last reindex
IndexedIds == 1 .. 3

\* the index holds three ids, the store any of the three articles, and the
\* query gives up to MaxHits of the ids of the index, in any order
InitSemantic ==
    /\ articles \in SUBSET IndexedIds
    /\ Request(<<>>)
    /\ documents = {}
    /\ response_model = ""
    /\ collection = Collection(IndexedIds)
    /\ rpc = "idle"
    /\ fetched = <<>>
    /\ total = 0
    /\ processed = 0
    /\ report = NoReport
    /\ replaced = collection.ids
    /\ observed = NoObservation
    /\ index_fault = "none"
    /\ ret = NoReturn
    /\ \E ranking \in InjSeqs(collection.ids, MaxHits) :
           args = [fn |-> "_search_semantic",
                   res |-> [k \in 1 .. Len(ranking) |-> Str(ranking[k])]]

NextSemantic == SearchSemanticAlone

SpecSemantic == InitSemantic /\ [][NextSemantic]_vars

----------------------------------------------------------------------------
(* reindex_articles with the constructor of RAGService of another request    *)
(* and the vector search of a request that holds the collection from before  *)

\* RAGService.__init__ of another request:
\* self.chroma_client.get_or_create_collection(name="kb_articles")
ConstructService ==
    /\ collection' = IF collection.exists THEN collection ELSE Collection({})
    /\ UNCHANGED <<storeVars, rpc, fetched, total, processed, report, replaced, observed,
                   index_fault, callVars, moreVars, response_model, pc, queryVars, loopVars,
                   resultVars, histVars, genVars, dbVars, chatVars>>

\* the collection a request got before the reindex is the one that is there
\* now: the reindex has not deleted it yet
HandleValid ==
    /\ collection.exists
    /\ rpc \in {"idle", "delete"} \/ index_fault = "delete"

\* _search_semantic of a request constructed before the reindex:
\* self.collection.query(...) raises once the collection is deleted, and the
\* adapter returns [] then
StaleSearch ==
    /\ observed' = [seen |-> TRUE, during |-> rpc, raised |-> FALSE,
                    ids |-> IF HandleValid THEN collection.ids ELSE {}]
    /\ UNCHANGED <<storeVars, collection, rpc, fetched, total, processed, report, replaced,
                   index_fault, callVars, moreVars, response_model, pc, queryVars, loopVars,
                   resultVars, histVars, genVars, dbVars, chatVars>>

\* the index holds the articles of the store before the reindex
InitConstruct ==
    /\ Request(<<>>)
    /\ articles \in {{}, 1 .. 2, 1 .. (BatchSize + 1)}
    /\ documents = {}
    /\ response_model = ""
    /\ collection = Collection(articles)
    /\ NoReindex

NextConstruct ==
    \/ ReindexBegin
    \/ DeleteCollection
    \/ CreateCollection
    \/ AddBatch
    \/ ReindexReturn
    \/ ConstructService
    \/ StaleSearch

SpecConstruct == InitConstruct /\ [][NextConstruct]_vars

----------------------------------------------------------------------------
(* The provider chain under fair scheduling: every request of a provider is  *)
(* answered or times out after 120 s, every wait is at most 5 s, and the     *)
(* coroutine of the call goes on until it returns                            *)

\* what tells the position of a call: every step of the call changes it
position == <<pc, vi, attempt, calls, ncall>>

SpecGenerateFair ==
    InitGenerate /\ [][NextGenerate]_vars /\ WF_position(NextGenerate)

----------------------------------------------------------------------------
(* Properties of the retrieval loop and the merge *)

Distinct(s) == \A i, j \in 1 .. Len(s) : i # j => s[i] # s[j]

IsPrefix(s, t) == Len(s) <= Len(t) /\ \A k \in 1 .. Len(s) : t[k] = s[k]

\* C1: the related-articles list has at most 5 entries with pairwise distinct
\* ids, the related-documents list at most 3 with pairwise distinct ids.
MergedListsCapped ==
    pc = "merged" =>
        /\ Len(relevant_articles) <= 5
        /\ Distinct(Ids(relevant_articles))
        /\ Len(relevant_documents) <= 3
        /\ Distinct(Ids(relevant_documents))

\* both maps outgrew their caps, with ids returned more than once
MergedListsCappedWitness ==
    /\ pc = "merged"
    /\ Len(collected) > 5
    /\ Len(collected_docs) > 3
    /\ repeated

\* C2: an id returned again is not added a second time, and no step of the
\* loop replaces an entry of either map or moves it to another position.
FirstHitKept ==
    [][/\ IsPrefix(collected, collected')
       /\ IsPrefix(collected_docs, collected_docs')
       /\ Distinct(Ids(collected'))
       /\ Distinct(Ids(collected_docs'))]_vars

\* a later variant returned ids that an earlier variant had returned, and
\* both maps still hold the copies of the first variant
FirstHitKeptWitness ==
    /\ pc = "merged"
    /\ repeated
    /\ vi > 1
    /\ \E k \in 1 .. Len(collected) : collected[k].q = 1
    /\ \E k \in 1 .. Len(collected_docs) : collected_docs[k].q = 1
    /\ \E k \in 1 .. Len(collected) : collected[k].q > 1

\* C3: the merged lists are the first 5 (3) distinct ids of the hits in the
\* order they were returned: variant by variant and, within a variant, the
\* vector-similarity adapter, then the lexical one, then the metadata one,
\* then the documents. Nothing is sorted again.
MergedInDiscoveryOrder ==
    /\ [](pc = "merged" =>
            /\ Ids(relevant_articles) = Take(seenArt, 5)
            /\ Ids(relevant_documents) = Take(seenDoc, 3)
            /\ \A j, k \in 1 .. Len(relevant_articles) :
                   j < k => relevant_articles[j].q <= relevant_articles[k].q)
    /\ [][/\ pc = "semantic" => pc' \in {"text", "raised"}
          /\ pc = "text" => pc' \in {"meta", "raised"}
          /\ pc = "meta" => pc' = "docs"
          /\ pc = "docs" => pc' = "check"
          /\ pc \in {"semantic", "text", "meta", "docs"} => vi' = vi]_vars

\* the lists were cut from maps that hold hits of several variants
MergedInDiscoveryOrderWitness ==
    /\ pc = "merged"
    /\ Len(seenArt) > 5
    /\ Len(seenDoc) > 3
    /\ \E j, k \in 1 .. Len(relevant_articles) :
           relevant_articles[j].q < relevant_articles[k].q

\* C4: the pair the loop with its break produces is the pair of the loop
\* that tries every variant.
EarlyExitSameResult ==
    pc = "merged" =>
        /\ relevant_articles = Take(allArt, ArticleCap)
        /\ relevant_documents = Take(allDoc, DocumentCap)

\* the loop left early and an untried variant had hits of its own
EarlyExitSameResultWitness ==
    /\ pc = "merged"
    /\ vi < Len(variants)
    /\ refVi = Len(variants)
    /\ refDi = Len(variants)
    /\ Len(allArt) > Len(collected)
    /\ Len(allDoc) > Len(collected_docs)

\* C9: the loop of generate_response never observes an exception from an
\* adapter.
NoAdapterException == pc # "raised"

----------------------------------------------------------------------------
(* Properties of normalisation and expansion *)

\* C5: for every question, the variant list obtained by expanding the
\* normalized query has between 1 and 8 elements.
VariantCountBounded ==
    pc = "expanded" => Len(variants) >= 1 /\ Len(variants) <= 8

\* more than 8 distinct variants were produced and the list was cut at 8
VariantCountBoundedWitness ==
    /\ pc = "expanded"
    /\ Len(variants) = 8
    /\ Cardinality({Lower(Strip(v)) : v \in Range(ProducedVariants(normalized))}) > 8

\* C6: the first variant is the normalized question, whatever substitutions
\* apply.
FirstVariantIsNormalized ==
    pc = "expanded" => variants[1] = normalized

\* normalisation changed the question and substitutions produced variants
FirstVariantIsNormalizedWitness ==
    /\ pc = "expanded"
    /\ normalized # user_question
    /\ normalized # <<>>
    /\ Len(variants) > 1

\* the positions of the produced list whose stripped text is not empty and
\* differs, case-insensitively, from that of every earlier position
FirstProduced(p) ==
    {i \in 1 .. Len(p) :
        /\ Strip(p[i]) # <<>>
        /\ \A j \in 1 .. (i - 1) : Lower(Strip(p[j])) # Lower(Strip(p[i]))}

\* C7: no two variants are equal case-insensitively, and the variants are the
\* first 8 of the produced ones that are new, in the order of production.
VariantsDedupedInOrder ==
    (pc = "expanded" /\ normalized # <<>>) =>
        LET p == ProducedVariants(normalized)
            first == FirstProduced(p)
        IN  /\ \A i, j \in 1 .. Len(variants) :
                   i # j => Lower(variants[i]) # Lower(variants[j])
            /\ Len(variants) = Min(8, Cardinality(first))
            /\ \A k \in 1 .. Len(variants) :
                   \E i \in first :
                       /\ Cardinality({j \in first : j <= i}) = k
                       /\ variants[k] = Strip(p[i])

\* a produced variant differed from an earlier one only by letter case and
\* was dropped
VariantsDedupedInOrderWitness ==
    /\ pc = "expanded"
    /\ Len(variants) > 1
    /\ LET p == ProducedVariants(normalized)
       IN  \E i, j \in 1 .. Len(p) :
               /\ i < j
               /\ p[i] # p[j]
               /\ Lower(Strip(p[i])) = Lower(Strip(p[j]))

\* C8: for an empty or whitespace-only question, normalisation and expansion
\* return exactly one variant, the empty string.
EmptyQuestionOneEmptyVariant ==
    (pc = "expanded" /\ \A i \in 1 .. Len(user_question) : IsSpace(user_question[i]))
        => variants = << <<>> >>

\* a question of two spaces was expanded
EmptyQuestionOneEmptyVariantWitness ==
    /\ pc = "expanded"
    /\ user_question = <<" ", " ">>
    /\ variants = << <<>> >>

----------------------------------------------------------------------------
(* Properties of the answer *)

\* C10: when the retrieval found no article and no document, generate_response
\* returns a non-empty answer and the id of the saved turn, whatever the
\* providers do.
NoHitsStillAnswered ==
    (pc = "returned" /\ relevant_articles = <<>> /\ relevant_documents = <<>>) =>
        /\ result.response # ""
        /\ \E k \in 1 .. Len(chat_messages) : chat_messages[k].id = result.message_id

----------------------------------------------------------------------------
(* Properties of the request without hits *)

\* the provider chain has answered
Generated ==
    \/ pc \in {"generated", "saved", "save_raised", "returned", "history_raised"}
    \/ pc \in {"responded", "http_500"} /\ fault # "raised"

\* the prompt is made
Prompted == pc \in {"generate", "provider", "mistral"} \/ Generated

\* the provider _generate_with_ai_settings asks first
Primary(rm) == IF rm \in OwnClient THEN ModelType(rm) ELSE "mistral"

----------------------------------------------------------------------------
(* Properties of the provider chain *)

\* the number of requests to provider among calls
RequestsTo(provider) == Cardinality({k \in 1 .. Len(calls) : calls[k] = provider})

NonDecreasing(s) == \A k \in 1 .. (Len(s) - 1) : s[k] <= s[k + 1]

\* what a generate call requests when every request fails
FullChain(rm) ==
    (IF rm \in OwnClient THEN Copies(ModelType(rm), Requests(rm)) ELSE <<>>)
    \o Copies("mistral", Attempts)

\* C12: when the provider asked first failed and another one gave the answer,
\* the descriptor returned with the answer names the provider that gave it.
DescriptorNamesAnsweringProvider ==
    (pc = "returned" /\ resp.status = "ok" /\ calls[1] # calls[Len(calls)]) =>
        result.model_type = calls[Len(calls)]

\* C13: when every request of every provider failed, the answer is the
\* apology, in the chain, in the result of generate_response and in the
\* response of the endpoint, whatever the response model and the failures.
AllFailedGivesApology ==
    (Generated /\ resp.status # "ok") =>
        /\ ai_response = Apology
        /\ pc = "returned" => result.response = Apology
        /\ (pc = "responded" /\ fault = "none") => response.response = Apology

\* a configured provider failed, then Mistral was rate limited to the end, and
\* the caller got the apology
AllFailedGivesApologyWitness ==
    /\ pc = "responded"
    /\ fault = "none"
    /\ response_model = "anthropic:"
    /\ resp.status = "rate_limited"
    /\ calls = FullChain(response_model)
    /\ response.response = Apology

\* C14: one generate call sends at most 4 requests to Mistral, and every
\* failed attempt of the loop uses one attempt.
AtMostFourRequests ==
    /\ RequestsTo("mistral") <= Attempts
    /\ pc = "mistral" => Len(slept) = attempt

\* C15 as stated: after 4 failed attempts at least 4 waits were made, the
\* waits never decrease, and no wait is above the cap.
DelaysNonDecreasing ==
    (pc = "mistral" /\ attempt = Attempts) =>
        /\ Len(slept) >= Attempts
        /\ NonDecreasing(slept)
        /\ \A k \in 1 .. Len(slept) : slept[k] <= MaxDelay

\* C15: after 4 failed attempts exactly 4 waits were made, no wait is above
\* the cap, and the wait after attempt k is 0.5 s doubled k times or a
\* Retry-After hint cut at the cap.
DelaysCapped ==
    (pc = "mistral" /\ attempt = Attempts) =>
        /\ Len(slept) = Attempts
        /\ \A k \in 1 .. Len(slept) :
              /\ slept[k] <= MaxDelay
              /\ \/ slept[k] = Backoff(k - 1)
                 \/ \E hint \in RetryAfter \ {<<>>} :
                        slept[k] = Min(hint[1], MaxDelay)

\* four failures with a long hint first: the waits go down after the first
DelaysCappedWitness ==
    /\ pc = "mistral"
    /\ attempt = Attempts
    /\ slept[1] = MaxDelay
    /\ slept[2] = Backoff(1)
    /\ slept[4] = Backoff(3)

\* C16: after a 429 with a Retry-After hint the wait is the hint cut at 5 s;
\* after a 429 without one it is 0.5 s doubled per attempt, cut at 5 s.
RateLimitWait ==
    [][(pc = "mistral" /\ resp'.status = "rate_limited" /\ attempt' = attempt + 1) =>
          slept' = Append(slept,
                          IF resp'.retry_after # <<>>
                          THEN Min(resp'.retry_after[1], MaxDelay)
                          ELSE Min(BaseDelay * (2 ^ attempt), MaxDelay))]_vars

\* a 429 on the third attempt with a hint above the cap, after a 429 without
\* a hint
RateLimitWaitWitness ==
    /\ pc = "mistral"
    /\ attempt = 3
    /\ resp = [status |-> "rate_limited", retry_after |-> <<7000>>]
    /\ slept[2] = Backoff(1)
    /\ slept[3] = MaxDelay

\* C17: after the attempts on Mistral are used up, exactly one more provider
\* is requested, once, and nothing after it.
ExhaustedThenOneFallback ==
    (Generated /\ resp.status # "ok") =>
        \E n \in 1 .. Len(calls) :
            /\ n = Len(calls)
            /\ \A k \in 1 .. (n - 1) : calls[k] = calls[1]
            /\ calls[n] # calls[1]
            /\ n - 1 <= Attempts

\* C18: every generate call asks the configured provider first and, when all
\* fails, makes the requests of the whole chain, whatever the call before did;
\* no call changes the response model.
SameChainEveryCall ==
    /\ [](/\ calls # <<>> => calls[1] = Primary(response_model)
          /\ (pc = "generated" /\ resp.status # "ok") =>
                calls = FullChain(response_model))
    /\ [][response_model' = response_model]_vars

\* the second call fails through the whole chain after a first call in which
\* the configured provider failed and Mistral answered
SameChainEveryCallWitness ==
    /\ ncall = 2
    /\ response_model = "openai:"
    /\ prevCalls = <<"openai", "mistral", "mistral">>
    /\ pc = "generated"
    /\ resp.status # "ok"
    /\ calls = FullChain(response_model)

----------------------------------------------------------------------------
(* Properties of the chat endpoint *)

\* C19: send_message never answers its caller with an error: a fault below
\* it ends in an answer, not in an error status.
NeverRaisesToCaller == response.sent => response.status = 200

\* C20: when saving the turn failed after the answer was generated, the
\* caller still gets that answer.
SaveFailureKeepsAnswer ==
    (response.sent /\ fault = "save_raised") =>
        /\ response.status = 200
        /\ response.response = ai_response

----------------------------------------------------------------------------
(* Properties of the normalisation, continued *)

\* t.replace(a, b) on the occurrences of a in t.lower(), every other
\* character of t kept as it is
RECURSIVE ReplaceKeepingCase(_, _, _, _)
ReplaceKeepingCase(s, a, b, i) ==
    IF i > Len(s) THEN <<>>
    ELSE IF OccursAt(Lower(s), a, i)
    THEN b \o ReplaceKeepingCase(s, a, b, i + Len(a))
    ELSE <<s[i]>> \o ReplaceKeepingCase(s, a, b, i + 1)

\* the replacements from entry k on, each keeping the case around it
RECURSIVE ReplacementsKeepingCase(_, _)
ReplacementsKeepingCase(t, k) ==
    IF k > Len(replacements) THEN t
    ELSE ReplacementsKeepingCase(
             ReplaceKeepingCase(t, replacements[k][1], replacements[k][2], 1),
             k + 1)

\* C28: normalisation replaces the occurrences of the table's keys by their
\* values and leaves every other character as it was, its letter case
\* included.
NormalizationKeepsCase ==
    pc = "normalized" =>
        normalized =
            IF user_question = <<>> THEN <<>>
            ELSE Strip(CollapseSpaces(
                     ReplacementsKeepingCase(Strip(user_question), 1)))

\* C29: the normalized query has no whitespace at either end and no two
\* consecutive spaces, and normalising it again returns it unchanged.
NormalizationIdempotent ==
    pc = "normalized" =>
        /\ normalized = Strip(normalized)
        /\ ~Contains(normalized, <<" ", " ">>)
        /\ NormalizeQuery(normalized) = normalized

----------------------------------------------------------------------------
(* Properties of the variant loop *)

\* both maps hold their cap
BothCapsReached == Len(collected) >= 5 /\ Len(collected_docs) >= 3

\* C30: the adapters are run for a variant only while fewer than 5 articles
\* or fewer than 3 documents are collected; the loop is left at the end of
\* the first variant that fills both maps, and otherwise only after the last
\* variant.
LoopStopsAtCaps ==
    [][/\ (pc # "semantic" /\ pc' = "semantic") => ~BothCapsReached
       /\ (pc = "check" /\ BothCapsReached) => pc' = "merge"
       /\ (pc = "check" /\ ~BothCapsReached) => pc' = "loop"
       /\ (pc = "loop" /\ vi < Len(variants)) => (pc' = "semantic" /\ vi' = vi + 1)
       /\ (pc # "merge" /\ pc' = "merge") =>
              (BothCapsReached \/ vi = Len(variants))]_vars

\* the loop was left with a variant untried
LoopStopsAtCapsWitness ==
    /\ pc = "merge"
    /\ vi = 2
    /\ Len(variants) = 3
    /\ BothCapsReached

----------------------------------------------------------------------------
(* Properties of the order of the steps of generate_response *)

\* a step that brings the call to position to leaves position from
Enters(from, to) == (pc # to /\ pc' = to) => pc \in from

----------------------------------------------------------------------------
(* Properties of the reindex *)

\* the reindex of the empty store has returned
EmptyReindexed == report.status = "success" /\ report.total_articles = 0

\* C24: after reindex_articles ran on a store without articles the index is
\* empty and every query of the vector adapter returns no hits, while the
\* loop still collects what the lexical and the metadata adapter find.
EmptyIndexNoVectorHits ==
    /\ [](EmptyReindexed => collection = Collection({}))
    /\ [][(EmptyReindexed /\ pc = "semantic" /\ pc' # "semantic") =>
              (pc' = "text" /\ collected' = collected /\ seenArt' = seenArt)]_vars
    /\ [](EmptyReindexed /\ pc = "merged" =>
              Ids(relevant_articles) = Take(seenArt, 5))

\* an article created after the reindex of the empty store is returned
EmptyIndexNoVectorHitsWitness ==
    /\ EmptyReindexed
    /\ pc = "merged"
    /\ relevant_articles # <<>>

\* C25: a vector query made while a reindex runs finds the whole old index,
\* an empty or missing one, or the whole new one, never a non-empty part of
\* the new article set.
NoPartialIndexObserved ==
    (observed.seen /\ observed.during \in {"delete", "create", "batches"}) =>
        \/ observed.ids = replaced
        \/ observed.ids = {}
        \/ observed.ids = Range(fetched)

\* C26: after a reindex that returned, the ids in the index are the ids of
\* the articles of the store, whatever the index held before, and the total
\* reported is the number of articles indexed.
ReindexIsFullRebuild ==
    rpc = "done" =>
        /\ collection.exists
        /\ collection.ids = articles
        /\ report.total_articles = Cardinality(collection.ids)

----------------------------------------------------------------------------
(* Properties of the metadata adapter *)

\* the articles with a tag or a category named as an upper-cased token of
\* the query of at least two characters
MetaCandidates ==
    LET toks == UpperTokens(FindTokens(args.query, 1))
    IN  {a \in articles : args.tags[a] \cap toks # {}
                            \/ args.categories[a] \cap toks # {}}

\* C27: the metadata adapter upper-cases the tokens of at least two
\* characters and matches them against tag names and category names alike;
\* it returns at most limit articles, all of them candidates by a tag or by
\* a category, and some whenever there is a candidate.
MetaMatchesTagsAndCategories ==
    (ret.returned /\ ~ret.failed) =>
        /\ ret.ids \subseteq MetaCandidates
        /\ Cardinality(ret.ids) <= args.limit
        /\ MetaCandidates # {} => ret.ids # {}

----------------------------------------------------------------------------
(* Properties of the context *)

\* text in full when it has at most limit characters, else its first limit
\* characters and the marker
CutAt(text, limit) ==
    IF Len(text) <= limit THEN text
    ELSE [i \in 1 .. (limit + 3) |-> IF i <= limit THEN text[i] ELSE "."]

\* the block of document number d of the arguments
BlockOf(d) == ret.context[Len(args.articles) + d]

\* the query the chunks are searched for
AuxiliaryQuery == IF args.articles # <<>> THEN args.articles[1].text ELSE <<>>

\* the positions of the chunks of document d that hold the query in either
\* case; an empty chunk holds nothing
Matching(d) ==
    LET chunks == args.documents[d].lookup.chunks
    IN  {k \in 1 .. Len(chunks) :
            /\ chunks[k] # <<>>
            /\ \E i \in 1 .. (Len(chunks[k]) - Len(AuxiliaryQuery) + 1) :
                   \A j \in 1 .. Len(AuxiliaryQuery) :
                       LowerChar(chunks[k][i + j - 1]) = LowerChar(AuxiliaryQuery[j])}

\* the k-th smallest element of the set S of numbers
Nth(S, k) == CHOOSE x \in S : Cardinality({y \in S : y <= x}) = k

\* C22: an article body of more than 1000 characters is in the context as its
\* first 1000 characters and the marker, a chunk of more than 500 characters
\* as its first 500 and the marker; shorter ones are there in full, without
\* the marker.
ContextTruncates ==
    ret.returned =>
        /\ \A a \in 1 .. Len(args.articles) :
               ret.context[a].text = CutAt(args.articles[a].text, 1000)
        /\ \A d \in 1 .. Len(args.documents) :
               \A j \in 1 .. Len(BlockOf(d).fragments) :
                   \E k \in 1 .. Len(args.documents[d].lookup.chunks) :
                       BlockOf(d).fragments[j] =
                           CutAt(args.documents[d].lookup.chunks[k], 500)

\* a body and a chunk one character over their limits were cut, and a body
\* and a chunk of exactly the limit were not
ContextTruncatesWitness ==
    /\ ret.returned
    /\ \E a \in 1 .. Len(args.articles) :
           /\ Len(args.articles[a].text) = 1001
           /\ Len(ret.context[a].text) = 1003
    /\ \E d \in 1 .. Len(args.documents) :
           /\ \E j \in 1 .. Len(BlockOf(d).fragments) :
                  Len(BlockOf(d).fragments[j]) = 503
           /\ \E j \in 1 .. Len(BlockOf(d).fragments) :
                  BlockOf(d).fragments[j] = Digits(500)

----------------------------------------------------------------------------
(* Properties of send_message *)

\* C31: the related articles of the response, with the articles of
\* Elasticsearch added, have pairwise distinct ids and are at most 5; an
\* Elasticsearch article whose id is there already is dropped, and the articles
\* of the orchestrator stay ahead, in their places.
MergedArticlesCapped ==
    ret.returned =>
        /\ Distinct(Ids(ret.related_articles))
        /\ Len(ret.related_articles) <= ArticleCap
        /\ SubSeq(ret.related_articles, 1, Len(args.result_articles))
               = args.result_articles

----------------------------------------------------------------------------
(* Properties of the sessions *)

\* the history get_history returns for session sid of the user
HistoryOf(sid) == Lrange(history, SessionKey(User, sid))

\* C32: new_chat returns the id after the current session of the user, makes
\* it the current session, keeps the sessions of the list and leaves every
\* history as it is, so that get_history gives for every earlier session what
\* it gave before.
NewChatKeepsOldSessions ==
    [][(served' = served + 1 /\ ret'.returned /\ ret'.fn = "new_chat" /\ ret'.n = served') =>
          /\ ret'.session_id = (IF current = 0 THEN 1 ELSE current) + 1
          /\ current' = ret'.session_id
          /\ SubSeq(sessions', 1, Len(sessions)) = sessions
          /\ sessions'[Len(sessions')] = ret'.session_id
          /\ history' = history
          /\ \A sid \in 1 .. current : HistoryOf(sid)' = HistoryOf(sid)]_vars

\* new_chat after a send_message that was answered: session 2 is current and
\* the history of session 1 still holds the turn
NewChatKeepsOldSessionsWitness ==
    /\ ret.returned
    /\ ret.fn = "new_chat"
    /\ ret.n = 2
    /\ ret.session_id = 2
    /\ current = 2
    /\ sessions = <<1, 2>>
    /\ Len(HistoryOf(1)) = 1
    /\ HistoryOf(2) = <<>>

ConcurrentSessionsDistinct ==
    (\A p \in Procs : procs[p].at = "done") =>
        /\ \A p, q \in Procs :
              (p # q /\ procs[p].fn = "new_chat" /\ procs[q].fn = "new_chat") =>
                  procs[p].session_id # procs[q].session_id
        /\ Distinct(sessions)

----------------------------------------------------------------------------
(* Properties of the agent registry *)

\* C37: the active agent type is unset or names an agent of the registry, and
\* then get_agent() gives an agent; set_active_agent for a type without agent
\* raises and leaves the active type; a create_agent that raises leaves the
\* registry and the active type.
ActiveAgentIsRegistered ==
    /\ [](/\ active_agent = "" \/ active_agent \in agents
          /\ active_agent # "" => GetAgent # "")
    /\ [][(~ret.returned /\ ret'.returned) =>
             /\ (args.fn = "set_active_agent" /\ args.agent_type \notin agents) =>
                   (ret'.raised /\ active_agent' = active_agent /\ agents' = agents)
             /\ (args.fn \in {"create_agent", "agent_create"} /\ ret'.raised) =>
                   (agents' = agents /\ active_agent' = active_agent)
             /\ (args.fn \in {"create_agent", "agent_create"}
                    /\ args.agent_type \notin AgentTypes) => ret'.raised]_vars

\* set_active_agent("ollama") raised with the agents bert_spacy and mistral
\* there and bert_spacy active
ActiveAgentIsRegisteredWitness ==
    /\ args.fn = "set_active_agent"
    /\ args.agent_type = "ollama"
    /\ ret.returned
    /\ ret.raised
    /\ agents = {"bert_spacy", "mistral"}
    /\ active_agent = "bert_spacy"

----------------------------------------------------------------------------
(* Properties of the vector adapter *)

\* the place of id in the ranking of the index, 0 when it is not there
Rank(id) ==
    IF \E k \in 1 .. Len(args.res) : args.res[k] = Str(id)
    THEN CHOOSE k \in 1 .. Len(args.res) : args.res[k] = Str(id)
    ELSE 0

\* C38: every article _search_semantic returns is in the article store; the
\* ids of the ranking without article are left out, every other id of the
\* ranking is returned, and in the order of the ranking.
SemanticHitsExist ==
    (ret.returned /\ ~ret.failed) =>
        /\ \A k \in 1 .. Len(ret.ids) : ret.ids[k] \in articles /\ Rank(ret.ids[k]) # 0
        /\ \A id \in articles : Rank(id) # 0 => id \in Range(ret.ids)
        /\ \A j, k \in 1 .. Len(ret.ids) : j < k => Rank(ret.ids[j]) < Rank(ret.ids[k])

\* the index ranks article 3, which is gone, ahead of article 1: only article
\* 1 is returned
SemanticHitsExistWitness ==
    /\ ret.returned
    /\ ~ret.failed
    /\ articles = {1, 2}
    /\ args.res = <<Str(3), Str(1)>>
    /\ ret.ids = <<1>>

----------------------------------------------------------------------------
(* Properties of the reindex beside other requests *)

\* C39: a reindex none of whose Chroma commands failed ends without error with
\* every article of the store in the index, also when other requests
\* construct their RAGService meanwhile; and the vector query of a request
\* that holds the collection from before the reindex gives a result.
ReindexSurvivesConstructor ==
    /\ (rpc \in {"done", "raised"} /\ index_fault = "none") =>
          /\ rpc = "done"
          /\ collection.exists
          /\ collection.ids = articles
    /\ observed.seen => ~observed.raised

----------------------------------------------------------------------------
(* Properties of the end of the provider chain *)

============================================================================
